---- MODULE Spec2Model ----
(***************************************************************************)
(* The advertise protocol of OwlNest: the Behaviour of                     *)
(* protocols/owlnest-advertise (behaviour.rs), its connection Handler      *)
(* (handler.rs), the Handle of owlnest/src/net/p2p/protocols/advertise.rs  *)
(* and the connected-peer bookkeeping of owlnest-hyper.                    *)
(*                                                                         *)
(* Spec     one node's behaviours driven by the swarm: commands, swarm     *)
(*          events and handler events of its peers, and poll.              *)
(* SpecNet  two nodes and a peer without the protocol, joined by           *)
(*          handlers, substreams and the querying handle.                  *)
(* SpecOrder   the commands of one handle on their way to one peer.        *)
(* SpecTask    the swarm task, its channels and the calls on handles.      *)
(* SpecEvents  the swarm task's events and a listening call.               *)
(* SpecBlob    send ids of the blob handle, recv ids of a receiver.        *)
(* SpecMsg     messages of the messaging handle to a connected peer.       *)
(* SpecXfer    blob transfers accepted, streamed and cancelled.            *)
(* SpecFs      recv_file of the blob handles on the receiver's filesystem. *)
(* SpecCorr    send_message calls in flight and their result events.       *)
(* SpecSub     calls of the handles that wait for a broadcast event.       *)
(* SpecHandler one connection handler with failing recvs and sends.        *)
(***************************************************************************)
EXTENDS Integers, Sequences, FiniteSets, TLC

\* Nodes that run the advertise behaviour, and a peer that does not speak it.
Nodes == {"A", "B"}
Unsupporting == {"U"}
Peers == {"A", "B", "C", "U"}
\* The node of Spec and the peers the swarm reports to it.
UnitNode == "A"
UnitPeers == {"B", "C"}

\* Bounds of the model.
MaxQueue == 2
MaxConns == 2
MaxNetLoad == 1
MaxSubmitted == 3
MaxCalls == 2
MaxSends == 3
MaxXfers == 2
FileChunks == 2

\* The operation id carried by commands; the handle's counter is unused
\* (advertise.rs:83-87), so the behaviour sees ids as opaque tags.
OpIds == {0}

NoPeer == "-"

(***************************************************************************)
(* Values                                                                  *)
(***************************************************************************)
\* Option<Box<[PeerId]>>: a HashSet collected into a list holds each peer
\* once in an unspecified order, so the list is kept as the set of its items.
NoList == [some |-> FALSE, list |-> {}]
SomeList(s) == [some |-> TRUE, list |-> s]

InEvent(type, peer, flag, id) ==
    [type |-> type, peer |-> peer, flag |-> flag, id |-> id]

OutEvent(type, peer, flag, id, payload, err) ==
    [type |-> type, peer |-> peer, flag |-> flag, id |-> id,
     payload |-> payload, err |-> err]

FromBehaviour(type, flag, payload) ==
    [type |-> type, flag |-> flag, payload |-> payload]

ToBehaviour(type, flag, payload, err) ==
    [type |-> type, flag |-> flag, payload |-> payload, err |-> err]

NoFromBehaviour == FromBehaviour("-", FALSE, NoList)
NoOutEvent == OutEvent("-", NoPeer, FALSE, 0, NoList, "-")

\* The commands a handle can submit about the peers in ps.
InEvents(ps) ==
    {InEvent("QueryAdvertisedPeer", p, FALSE, 0) : p \in ps}
    \cup {InEvent("GetProviderState", NoPeer, FALSE, i) : i \in OpIds}
    \cup {InEvent("SetRemoteAdvertisement", p, f, i) :
             p \in ps, f \in BOOLEAN, i \in OpIds}
    \cup {InEvent("SetProviderState", NoPeer, f, i) : f \in BOOLEAN, i \in OpIds}
    \cup {InEvent("RemoveAdvertised", p, FALSE, 0) : p \in ps}
    \cup {InEvent("ListAdvertised", NoPeer, FALSE, 0),
          InEvent("ClearAdvertised", NoPeer, FALSE, 0),
          InEvent("ListConnected", NoPeer, FALSE, 0)}

\* The events a peer's handler can hand to the behaviour.
ToBehaviours(ps) ==
    {ToBehaviour("IncomingQuery", FALSE, NoList, "-")}
    \cup {ToBehaviour("IncomingAdvertiseReq", f, NoList, "-") : f \in BOOLEAN}
    \cup {ToBehaviour("QueryAnswered", FALSE, l, "-") :
             l \in {NoList, SomeList({})}}
    \cup {ToBehaviour("Error", FALSE, NoList, e) : e \in {"IO"}}
    \cup {ToBehaviour("InboundNegotiated", FALSE, NoList, "-"),
          ToBehaviour("OutboundNegotiated", FALSE, NoList, "-")}

(***************************************************************************)
(* owlnest-advertise: Behaviour                                            *)
(***************************************************************************)
Behaviour_new ==
    [pending_out_events |-> <<>>, in_events |-> <<>>, advertised_peers |-> {},
     pending_query_answer |-> <<>>, connected_peers |-> {},
     is_providing |-> FALSE]

\* Mutant: a new command goes to the front of in_events.
push_event_front(b, ev) == [b EXCEPT !.in_events = <<ev>> \o @]

push_event(b, ev) == [b EXCEPT !.in_events = Append(@, ev)]

is_advertising(b, peer) == peer \in b.advertised_peers

\* Mutant: switching the provider off also drops the advertisements.
set_provider_status_clearing(b, status) ==
    [b EXCEPT !.is_providing = status,
              !.advertised_peers = IF status THEN @ ELSE {}]

set_provider_status(b, status) == [b EXCEPT !.is_providing = status]

get_provider_status(b) == b.is_providing

remove_advertised(b, peer_id) ==
    [b EXCEPT !.advertised_peers = @ \ {peer_id}]

clear_advertised(b) == [b EXCEPT !.advertised_peers = {}]

\* Mutant: a repeated AdvertiseSelf(true) toggles the entry.
incoming_advertise_req_toggling(b, peer_id, flag) ==
    IF flag /\ peer_id \notin b.advertised_peers
    THEN [b EXCEPT !.advertised_peers = @ \cup {peer_id}]
    ELSE [b EXCEPT !.advertised_peers = @ \ {peer_id}]

\* Mutant: advertisement packets are ignored while not providing.
incoming_advertise_req_gated(b, peer_id, flag) ==
    IF ~b.is_providing THEN b
    ELSE IF flag
    THEN [b EXCEPT !.advertised_peers = @ \cup {peer_id}]
    ELSE [b EXCEPT !.advertised_peers = @ \ {peer_id}]

\* IncomingAdvertiseReq(bool): HashSet insert or remove.
incoming_advertise_req(b, peer_id, flag) ==
    IF flag
    THEN [b EXCEPT !.advertised_peers = @ \cup {peer_id}]
    ELSE [b EXCEPT !.advertised_peers = @ \ {peer_id}]

on_connection_handler_event(b, peer_id, event) ==
    CASE event.type = "IncomingQuery" ->
           [b EXCEPT !.pending_query_answer = Append(@, peer_id)]
      [] event.type = "IncomingAdvertiseReq" ->
           incoming_advertise_req(b, peer_id, event.flag)
      [] event.type = "QueryAnswered" ->
           [b EXCEPT !.pending_out_events =
               Append(@, OutEvent("QueryAnswered", peer_id, FALSE, 0,
                                  event.payload, "-"))]
      [] event.type = "Error" ->
           [b EXCEPT !.pending_out_events =
               Append(@, OutEvent("Error", NoPeer, FALSE, 0, NoList, event.err))]
      [] event.type = "InboundNegotiated" -> b
      [] event.type = "OutboundNegotiated" ->
           [b EXCEPT !.connected_peers = @ \cup {peer_id}]

\* Mutant: every closed connection evicts the peer.
connection_closed_any(b, peer_id, remaining_established) ==
    [b EXCEPT !.advertised_peers = @ \ {peer_id},
              !.connected_peers = @ \ {peer_id}]

\* Mutant: the last closed connection takes the peer out of connected_peers
\* and leaves its advertisement.
connection_closed_keeping(b, peer_id, remaining_established) ==
    IF remaining_established < 1
    THEN [b EXCEPT !.connected_peers = @ \ {peer_id}]
    ELSE b

\* FromSwarm::ConnectionClosed.
connection_closed(b, peer_id, remaining_established) ==
    IF remaining_established < 1
    THEN [b EXCEPT !.advertised_peers = @ \ {peer_id},
                   !.connected_peers = @ \ {peer_id}]
    ELSE b

\* Mutant: ConnectionEstablished is ignored.
connection_established_ignored(b, peer_id) == b

\* FromSwarm::ConnectionEstablished.
connection_established(b, peer_id) ==
    [b EXCEPT !.connected_peers = @ \cup {peer_id}]

\* Mutant: every answer is the empty list.
answer_advertised_peer_empty(b) ==
    FromBehaviour("AnswerAdvertisedPeer", FALSE, SomeList({}))

\* The answer to one pending query: a list in both branches, the collected
\* set when providing and Vec::new() when not.
answer_advertised_peer(b) ==
    IF b.is_providing
    THEN FromBehaviour("AnswerAdvertisedPeer", FALSE, SomeList(b.advertised_peers))
    ELSE FromBehaviour("AnswerAdvertisedPeer", FALSE, SomeList({}))

\* What poll returns, with the commands it consumed and the callbacks it
\* resolved on the way.
PollResult(b, kind, peer, hev, oev, processed, callbacks) ==
    [b |-> b, kind |-> kind, peer |-> peer, hev |-> hev, oev |-> oev,
     processed |-> processed, callbacks |-> callbacks]

\* Mutant: a query is handed to a handler whether or not the relay is connected.
query_is_dispatched_always(b, relay) == TRUE

\* QueryAdvertisedPeer(relay) taken from in_events.
query_is_dispatched(b, relay) == relay \in b.connected_peers

not_providing(b, relay) ==
    [b EXCEPT !.pending_out_events =
        Append(@, OutEvent("Error", relay, FALSE, 0, NoList, "NotProviding"))]

\* Mutant: GetProviderState reports the provider as on.
provider_state_report_on(b, id) ==
    OutEvent("ProviderState", NoPeer, TRUE, id, NoList, "-")

\* GetProviderState(id).
provider_state_report(b, id) ==
    OutEvent("ProviderState", NoPeer, b.is_providing, id, NoList, "-")

\* The while-let loop over in_events.
RECURSIVE poll_in_events(_, _, _)
poll_in_events(b, processed, callbacks) ==
    IF b.in_events = <<>>
    THEN PollResult(b, "Pending", NoPeer, NoFromBehaviour, NoOutEvent,
                    processed, callbacks)
    ELSE
      LET ev == Head(b.in_events)
          b1 == [b EXCEPT !.in_events = Tail(@)]
          done == Append(processed, ev)
      IN
      CASE ev.type = "QueryAdvertisedPeer" ->
             IF query_is_dispatched(b1, ev.peer)
             THEN PollResult(b1, "NotifyHandler", ev.peer,
                             FromBehaviour("QueryAdvertisedPeer", FALSE, NoList),
                             NoOutEvent, done, callbacks)
             ELSE poll_in_events(not_providing(b1, ev.peer), done, callbacks)
        [] ev.type = "GetProviderState" ->
             PollResult(b1, "GenerateEvent", NoPeer, NoFromBehaviour,
                        provider_state_report(b1, ev.id), done, callbacks)
        [] ev.type = "SetRemoteAdvertisement" ->
             PollResult(b1, "NotifyHandler", ev.peer,
                        FromBehaviour("SetAdvertiseSelf", ev.flag, NoList),
                        NoOutEvent, done, callbacks)
        [] ev.type = "SetProviderState" ->
             PollResult(set_provider_status(b1, ev.flag), "GenerateEvent", NoPeer,
                        NoFromBehaviour,
                        OutEvent("ProviderState", NoPeer, ev.flag, ev.id, NoList, "-"),
                        done, callbacks)
        [] ev.type = "RemoveAdvertised" ->
             PollResult(remove_advertised(b1, ev.peer), "GenerateEvent", NoPeer,
                        NoFromBehaviour,
                        OutEvent("AdvertisedPeerChanged", ev.peer,
                                 ev.peer \in b1.advertised_peers, 0, NoList, "-"),
                        done, callbacks)
        [] ev.type = "ListAdvertised" ->
             poll_in_events(b1, done,
                 Append(callbacks, [type |-> "ListAdvertised",
                                    list |-> b1.advertised_peers]))
        [] ev.type = "ClearAdvertised" ->
             poll_in_events(clear_advertised(b1), done, callbacks)
        [] ev.type = "ListConnected" ->
             poll_in_events(b1, done,
                 Append(callbacks, [type |-> "ListConnected",
                                    list |-> b1.connected_peers]))

Behaviour_poll(b) ==
    IF b.pending_query_answer # <<>>
    THEN PollResult([b EXCEPT !.pending_query_answer = Tail(@)], "NotifyHandler",
                    Head(b.pending_query_answer), answer_advertised_peer(b),
                    NoOutEvent, <<>>, <<>>)
    ELSE IF b.pending_out_events # <<>>
    THEN PollResult([b EXCEPT !.pending_out_events = Tail(@)], "GenerateEvent",
                    NoPeer, NoFromBehaviour, Head(b.pending_out_events),
                    <<>>, <<>>)
    ELSE poll_in_events(b, <<>>, <<>>)

(***************************************************************************)
(* owlnest-hyper: Behaviour, connected_peers only                          *)
(***************************************************************************)
on_connect(connected, peer) == connected \cup {peer}

on_disconnect(connected, peer_id, remaining_established) ==
    IF remaining_established < 1 THEN connected \ {peer_id} ELSE connected

(***************************************************************************)
(* owlnest-advertise: Handler                                              *)
(***************************************************************************)
Packet(type, flag, payload) == [type |-> type, flag |-> flag, payload |-> payload]

NoPacket == Packet("-", FALSE, NoList)

\* serde_json::to_vec of a Packet: the externally tagged variant with its
\* body, an Option as null or as the array of its items.
as_bytes(packet) ==
    CASE packet.type = "AdvertiseSelf" ->
           [tag |-> "AdvertiseSelf",
            body |-> IF packet.flag THEN "true" ELSE "false", items |-> {}]
      [] packet.type = "QueryAdvertisedPeer" ->
           [tag |-> "QueryAdvertisedPeer", body |-> "unit", items |-> {}]
      [] packet.type = "AnswerAdvertisedPeer" ->
           [tag |-> "AnswerAdvertisedPeer",
            body |-> IF packet.payload.some THEN "array" ELSE "null",
            items |-> packet.payload.list]

\* serde_json::from_slice::<Packet>.
from_slice(bytes) ==
    CASE bytes.tag = "AdvertiseSelf" ->
           Packet("AdvertiseSelf", bytes.body = "true", NoList)
      [] bytes.tag = "QueryAdvertisedPeer" ->
           Packet("QueryAdvertisedPeer", FALSE, NoList)
      [] bytes.tag = "AnswerAdvertisedPeer" ->
           Packet("AnswerAdvertisedPeer", FALSE,
                  IF bytes.body = "null" THEN NoList ELSE SomeList(bytes.items))

\* impl From<Packet> for ToBehaviour.
packet_into(packet) ==
    CASE packet.type = "AdvertiseSelf" ->
           ToBehaviour("IncomingAdvertiseReq", packet.flag, NoList, "-")
      [] packet.type = "QueryAdvertisedPeer" ->
           ToBehaviour("IncomingQuery", FALSE, NoList, "-")
      [] packet.type = "AnswerAdvertisedPeer" ->
           ToBehaviour("QueryAnswered", FALSE, packet.payload, "-")

\* The packet poll_outbound builds for a command of the behaviour.
packet_of(ev) ==
    CASE ev.type = "QueryAdvertisedPeer" ->
           Packet("QueryAdvertisedPeer", FALSE, NoList)
      [] ev.type = "AnswerAdvertisedPeer" ->
           Packet("AnswerAdvertisedPeer", FALSE, ev.payload)
      [] ev.type = "SetAdvertiseSelf" ->
           Packet("AdvertiseSelf", ev.flag, NoList)

\* state: Active, Inactive_unreported (Inactive{reported: false}) or
\* Inactive_reported; inbound: None or Recv (a recv future is armed);
\* outbound: None, OpenStream, Idle or Busy, with the packet being sent.
Handler_new ==
    [state |-> "Active", pending_in_events |-> <<>>, pending_out_events |-> <<>>,
     inbound |-> "None", outbound |-> "None", sending |-> NoPacket]

\* The place of a handler while no connection to the peer is established.
NoHandler == [Handler_new EXCEPT !.state = "Dropped"]

\* Mutant: a new command goes to the front of pending_in_events.
on_behaviour_event_front(h, event) ==
    [h EXCEPT !.pending_in_events = <<event>> \o @]

on_behaviour_event(h, event) ==
    [h EXCEPT !.pending_in_events = Append(@, event)]

\* FullyNegotiatedInbound.
fully_negotiated_inbound(h) ==
    [h EXCEPT !.inbound = "Recv",
              !.pending_out_events =
                  Append(@, ToBehaviour("InboundNegotiated", FALSE, NoList, "-"))]

\* FullyNegotiatedOutbound.
fully_negotiated_outbound(h) ==
    [h EXCEPT !.outbound = "Idle",
              !.pending_out_events =
                  Append(@, ToBehaviour("OutboundNegotiated", FALSE, NoList, "-"))]

on_dial_upgrade_error(h, error) ==
    IF error = "NegotiationFailed"
    THEN [h EXCEPT !.outbound = "None", !.sending = NoPacket,
                   !.state = "Inactive_unreported"]
    ELSE [h EXCEPT !.outbound = "None", !.sending = NoPacket]

\* rx: the frames that arrived on the inbound substream.  A completed recv
\* is re-armed and its frame parsed into an event.
poll_inbound(h, rx) ==
    IF h.inbound = "Recv" /\ rx # <<>>
    THEN [h |-> [h EXCEPT !.pending_out_events =
                     Append(@, packet_into(from_slice(Head(rx))))],
          rx |-> Tail(rx)]
    ELSE [h |-> h, rx |-> rx]

\* The loop of poll_outbound.  A send that was pending completes and its
\* frame is written (sent); a send started in this call is left pending.
\* The outcomes in which a send fails (IO error, the 20 s timer) and in
\* which a recv fails are not followed here.
RECURSIVE poll_outbound(_, _, _)
poll_outbound(h, sent, started) ==
    CASE h.outbound = "Busy" ->
           IF started
           THEN [h |-> h, request |-> FALSE, sent |-> sent]
           ELSE poll_outbound([h EXCEPT !.outbound = "Idle", !.sending = NoPacket],
                              Append(sent, as_bytes(h.sending)), FALSE)
      [] h.outbound = "Idle" ->
           IF h.pending_in_events = <<>>
           THEN [h |-> h, request |-> FALSE, sent |-> sent]
           ELSE poll_outbound(
                    [h EXCEPT !.pending_in_events = Tail(@), !.outbound = "Busy",
                              !.sending = packet_of(Head(h.pending_in_events))],
                    sent, TRUE)
      [] h.outbound = "OpenStream" ->
           [h |-> h, request |-> FALSE, sent |-> sent]
      [] h.outbound = "None" ->
           [h |-> [h EXCEPT !.outbound = "OpenStream"], request |-> TRUE,
            sent |-> sent]

\* Handler::connection_keep_alive.
connection_keep_alive(h) == TRUE

HandlerResult(h, rx, kind, ev, sent) ==
    [h |-> h, rx |-> rx, kind |-> kind, ev |-> ev, sent |-> sent]

NoToBehaviour == ToBehaviour("-", FALSE, NoList, "-")

Handler_poll(h, rx) ==
    IF h.state = "Inactive_reported"
    THEN HandlerResult(h, rx, "Pending", NoToBehaviour, <<>>)
    ELSE
      LET h0 == IF h.state = "Inactive_unreported"
                THEN [h EXCEPT !.state = "Inactive_reported"] ELSE h
          inb == poll_inbound(h0, rx)
          out == poll_outbound(inb.h, <<>>, FALSE)
      IN  IF out.request
          THEN HandlerResult(out.h, inb.rx, "OutboundSubstreamRequest",
                             NoToBehaviour, out.sent)
          ELSE IF out.h.pending_out_events # <<>>
          THEN HandlerResult([out.h EXCEPT !.pending_out_events = Tail(@)],
                             inb.rx, "NotifyBehaviour",
                             Head(out.h.pending_out_events), out.sent)
          ELSE HandlerResult(out.h, inb.rx, "Pending", NoToBehaviour, out.sent)

(***************************************************************************)
(* owlnest: advertise::Handle, query_advertised_peer                       *)
(***************************************************************************)
\* st: idle, waiting (subscribed, command sent) or done; proc records what
\* the behaviour did with the command: queued, dispatched or notconnected.
NoQuery ==
    [st |-> "idle", relay |-> NoPeer, ok |-> FALSE, payload |-> NoList,
     err |-> "-", proc |-> "-"]

\* The listen_event! loop of query_advertised_peer on one broadcast event.
listen_event(q, ev) ==
    IF q.st = "waiting" /\ ev.type = "QueryAnswered" /\ ev.peer = q.relay
    THEN [q EXCEPT !.st = "done", !.ok = TRUE, !.payload = ev.payload]
    ELSE IF q.st = "waiting" /\ ev.type = "Error" /\ ev.err = "NotProviding"
            /\ ev.peer = q.relay
    THEN [q EXCEPT !.st = "done", !.ok = FALSE, !.err = "NotProviding"]
    ELSE q

\* Records what the behaviour b did with the command of the waiting call
\* when its poll took the commands processed.
QueryProcessed(q, b, processed) ==
    IF /\ q.proc = "queued"
       /\ \E i \in 1..Len(processed) :
             processed[i] = InEvent("QueryAdvertisedPeer", q.relay, FALSE, 0)
    THEN [q EXCEPT !.proc = IF query_is_dispatched(b, q.relay)
                            THEN "dispatched" ELSE "notconnected"]
    ELSE q

\* future_timeout!(fut, 10000) elapsed.
query_timeout(q) == [q EXCEPT !.st = "done", !.ok = FALSE, !.err = "Timeout"]

(***************************************************************************)
(* owlnest: the swarm task, its channels and the calls on handles          *)
(***************************************************************************)
\* build(buffer_size, ..): the capacity of each channel of the swarm task.
buffer_size == 4

\* The address swarm operations are about.
TaskAddr == "a"

SwarmOps ==
    {"Dial", "Listen", "AddExternalAddress", "RemoveExternalAddress",
     "DisconnectFromPeerId", "ListExternalAddresses", "ListListeners",
     "IsConnectedToPeerId"}

\* The commands of the advertise handle that carry a callback.
CallbackOps == {"ListConnected", "ListAdvertised"}

\* OpResult and the values of callbacks: ok is false for an Err value.
OpResult(kind, ok, flag, list) ==
    [kind |-> kind, ok |-> ok, flag |-> flag, list |-> list]

NoOpResult == OpResult("-", FALSE, FALSE, {})

\* A call on a handle.  st: "-", waiting, returned, dropped (the caller gave
\* the future up) or panicked; timer: a timeout bounds the wait; replies:
\* sends made on its callback; out: the result the swarm task computed;
\* sub: events its broadcast subscription holds; lagged: it missed events.
NoCall ==
    [op |-> "-", st |-> "-", timer |-> FALSE, replies |-> 0,
     result |-> NoOpResult, out |-> NoOpResult, sub |-> <<>>, lagged |-> FALSE]

\* The methods of generate_handler_method! and SwarmHandle::dial / listen:
\* a oneshot channel, the command sent, then rx.await.
generated_call(op) == [NoCall EXCEPT !.op = op, !.st = "waiting"]

\* Handle::query_advertised_peer: subscribe, send the command, then
\* future_timeout!(fut, 10000).
query_advertised_peer_call ==
    [NoCall EXCEPT !.op = "QueryAdvertisedPeer", !.st = "waiting", !.timer = TRUE]

NewSwarm ==
    [listeners |-> {}, external |-> {}, dialing |-> FALSE, closing |-> FALSE]

\* Mutant: a failed dial or listen is logged and its callback left alone.
swarm_op_exec_dropping_errors(s, connected, op, outcome) ==
    [sw |-> [s EXCEPT !.dialing = IF op = "Dial" THEN @ \/ outcome ELSE @,
                      !.listeners = IF op = "Listen" /\ outcome
                                    THEN @ \cup {TaskAddr} ELSE @],
     result |-> OpResult(op, outcome, FALSE, {}),
     replied |-> outcome]

\* swarm_op_exec: the operation on the swarm, whose dial and listen_on end
\* with outcome, and the result given to handle_callback.
swarm_op_exec(s, connected, op, outcome) ==
    CASE op = "Dial" ->
           [sw |-> [s EXCEPT !.dialing = @ \/ outcome],
            result |-> OpResult(op, outcome, FALSE, {}), replied |-> TRUE]
      [] op = "Listen" ->
           [sw |-> [s EXCEPT !.listeners = IF outcome THEN @ \cup {TaskAddr}
                                           ELSE @],
            result |-> OpResult(op, outcome, FALSE, {}), replied |-> TRUE]
      [] op = "AddExternalAddress" ->
           [sw |-> [s EXCEPT !.external = @ \cup {TaskAddr}],
            result |-> OpResult(op, TRUE, TaskAddr \notin s.external, {}),
            replied |-> TRUE]
      [] op = "RemoveExternalAddress" ->
           [sw |-> [s EXCEPT !.external = @ \ {TaskAddr}],
            result |-> OpResult(op, TRUE, TaskAddr \in s.external, {}),
            replied |-> TRUE]
      [] op = "DisconnectFromPeerId" ->
           [sw |-> [s EXCEPT !.closing = @ \/ connected],
            result |-> OpResult(op, connected, FALSE, {}), replied |-> TRUE]
      [] op = "ListExternalAddresses" ->
           [sw |-> s, result |-> OpResult(op, TRUE, FALSE, s.external),
            replied |-> TRUE]
      [] op = "ListListeners" ->
           [sw |-> s, result |-> OpResult(op, TRUE, FALSE, s.listeners),
            replied |-> TRUE]
      [] op = "IsConnectedToPeerId" ->
           [sw |-> s, result |-> OpResult(op, TRUE, connected, {}),
            replied |-> TRUE]

\* Mutant: the reply is sent with unwrap(), which panics when the caller
\* gave the future up.
handle_callback_unwrap(call, result) ==
    [call |-> IF call.st = "waiting"
              THEN [call EXCEPT !.st = "returned", !.result = result,
                                !.replies = @ + 1]
              ELSE call,
     panic |-> call.st # "waiting"]

\* handle_callback and handle_callback_sender!: callback.send(result); an
\* Err, the receiver being gone, is logged.
handle_callback(call, result) ==
    [call |-> IF call.st = "waiting"
              THEN [call EXCEPT !.st = "returned", !.result = result,
                                !.replies = @ + 1]
              ELSE [call EXCEPT !.replies = @ + 1],
     panic |-> FALSE]

\* pc: select (in the select! of the loop), sending (in ev_tx.send(..).await
\* with the channel full, held being the event) or panicked.
NoTask == [pc |-> "select", held |-> NoOutEvent]

\* ev_tx.send(out_event).await of the loop's third arm.
ev_tx_send(t, q, ev) ==
    IF Len(q) < buffer_size
    THEN [task |-> t, evq |-> Append(q, ev)]
    ELSE [task |-> [t EXCEPT !.pc = "sending", !.held = ev], evq |-> q]

\* A SwarmEvent that is not a behaviour's.
SwarmEvent(type, peer) == OutEvent(type, peer, FALSE, 0, NoList, "-")

\* The number of events a broadcast subscription retains.
event_capacity == 2

\* The event channel's receiver passes an event on to a subscription, which
\* retains event_capacity events; an older one it had not read is then lost.
broadcast_send(call, ev) ==
    IF Len(call.sub) < event_capacity
    THEN [call EXCEPT !.sub = Append(@, ev)]
    ELSE [call EXCEPT !.sub = Append(Tail(@), ev), !.lagged = TRUE]

\* One turn of the listen_event! loop of query_advertised_peer(relay):
\* recv() is Err(Lagged) after missed events, which ends the while-let and
\* reaches unreachable!(); an event is matched, and the loop goes on when
\* it is no answer.
listen_event_recv(call, relay) ==
    IF call.lagged THEN [call EXCEPT !.st = "panicked", !.sub = <<>>]
    ELSE
      LET q == listen_event([NoQuery EXCEPT !.st = "waiting", !.relay = relay],
                            Head(call.sub))
      IN  IF q.st = "done"
          THEN [call EXCEPT !.st = "returned", !.sub = <<>>,
                            !.result = OpResult(IF q.ok THEN "QueryAnswered"
                                                ELSE q.err,
                                                q.ok, q.payload.some,
                                                q.payload.list)]
          ELSE [call EXCEPT !.sub = Tail(@)]

(***************************************************************************)
(* owlnest: blob_transfer::Handle, and the transfer records of the two     *)
(* behaviours it talks to                                                  *)
(***************************************************************************)
BlobSender == "A"
BlobReceiver == "B"
BlobStranger == "U"

\* fetch_add that hands out the counter without advancing it.
next_id_reusing(counter) == [id |-> counter, counter |-> counter]

\* Handle::next_id: send_counter.fetch_add(1, SeqCst) returns the previous
\* value and advances the counter in one atomic step.  The counter is an
\* AtomicU64; MaxSends keeps it far below the wrap at 2^64.
next_id(counter) == [id |-> counter, counter |-> counter + 1]

SendFile(send_id, to) == [type |-> "SendFile", send_id |-> send_id, to |-> to]
CancelSend(send_id) == [type |-> "CancelSend", send_id |-> send_id, to |-> BlobReceiver]
BlobPacket(type, send_id) == [type |-> type, send_id |-> send_id]

\* Handle::new with the behaviours' empty record lists.  callers are tasks
\* holding clones of the handle; assigned and recv_assigned remember the
\* ids in the order they were handed out.
NoBlob ==
    [send_counter |-> 0,
     assigned |-> <<>>,
     callers |-> [k \in 1..MaxCalls |-> [pc |-> "idle", id |-> 0]],
     chan |-> <<>>,
     pending_send |-> <<>>,
     wire |-> <<>>,
     back |-> <<>>,
     recv_counter |-> 0,
     recv_assigned |-> <<>>,
     pending_recv |-> <<>>]

\* The sending behaviour handling one command of the handle.
blob_on_command(b, cmd) ==
    IF cmd.type = "SendFile"
    THEN [b EXCEPT
            !.pending_send = Append(@, [send_id |-> cmd.send_id, remote |-> cmd.to]),
            !.wire = Append(@, BlobPacket("SendRequest", cmd.send_id)),
            !.callers = [k \in 1..MaxCalls |->
                            IF @[k].pc = "waiting" /\ @[k].id = cmd.send_id
                            THEN [@[k] EXCEPT !.pc = "idle"]
                            ELSE @[k]]]
    ELSE IF \E i \in 1..Len(b.pending_send) : b.pending_send[i].send_id = cmd.send_id
    THEN [b EXCEPT
            !.pending_send = SelectSeq(@, LAMBDA r : r.send_id # cmd.send_id),
            !.wire = Append(@, BlobPacket("Cancel", cmd.send_id))]
    ELSE b

RecvKnown(b, from, send_id) ==
    \E i \in 1..Len(b.pending_recv) :
        /\ b.pending_recv[i].from = from
        /\ b.pending_recv[i].send_id = send_id

\* A receiver that numbers a request by the count of its live records.
on_send_request_reusing(b, from, send_id) ==
    IF RecvKnown(b, from, send_id)
    THEN b
    ELSE [b EXCEPT
            !.pending_recv = Append(@, [recv_id |-> Len(b.pending_recv),
                                        from |-> from, send_id |-> send_id]),
            !.recv_counter = @ + 1,
            !.recv_assigned = Append(@, Len(b.pending_recv))]

\* The receiving behaviour seeing a request: an unknown (from, send_id)
\* gets the next recv_id of the receiver's own counter.
on_send_request(b, from, send_id) ==
    IF RecvKnown(b, from, send_id)
    THEN b
    ELSE [b EXCEPT
            !.pending_recv = Append(@, [recv_id |-> b.recv_counter,
                                        from |-> from, send_id |-> send_id]),
            !.recv_counter = @ + 1,
            !.recv_assigned = Append(@, b.recv_counter)]

\* The receiving behaviour told by the sender that a transfer is cancelled.
on_cancel(b, from, send_id) ==
    [b EXCEPT !.pending_recv =
        SelectSeq(@, LAMBDA r : ~(r.from = from /\ r.send_id = send_id))]

(***************************************************************************)
(* owlnest: messaging::Handle, and the messaging behaviour and handler     *)
(***************************************************************************)
\* Message::new(from, to, msg); time is the clock reading it is stamped with.
Message(from, to, time, msg) ==
    [from |-> from, to |-> to, time |-> time, msg |-> msg]

\* The Msg packet on the wire and back: the fields in the order they are
\* written, read again by position.
message_as_bytes(m) == <<"from", m.from, "to", m.to, "time", m.time, "msg", m.msg>>
message_from_slice(bytes) == Message(bytes[2], bytes[4], bytes[6], bytes[8])

\* A listener that takes any SendResult for its own.
send_result_listen_any(call, result, id) ==
    IF call.pc = "waiting"
    THEN [call EXCEPT !.pc = "idle", !.result = result]
    ELSE call

\* send_message: the listener skips a SendResult whose id is not op_id and
\* returns the result of the one that matches.
send_result_listen(call, result, id) ==
    IF call.pc = "waiting" /\ call.id = id
    THEN [call EXCEPT !.pc = "idle", !.result = result]
    ELSE call

\* Handle::new, the idle handler of the connection and the empty queues of
\* the two behaviours.  sends is the list of the calls made, returned the
\* results they returned.
NoMsg ==
    [counter |-> 0,
     callers |-> [k \in 1..MaxCalls |-> [pc |-> "idle", id |-> 0, result |-> "none"]],
     sends |-> <<>>,
     returned |-> <<>>,
     chan |-> <<>>,
     pending_in |-> <<>>,
     outbound |-> [st |-> "Idle", id |-> 0],
     stream |-> <<>>,
     read |-> FALSE,
     inbound |-> <<>>,
     emitted |-> <<>>]

(***************************************************************************)
(* owlnest-blob: the transfer protocol between two behaviours              *)
(***************************************************************************)
\* The bytes of the file behind a send, one value per chunk.
file_bytes(send_id) == [i \in 1..FileChunks |-> (send_id + 1) * 10 + i]

XfPacket(type, id, offset, bytes) ==
    [type |-> type, id |-> id, offset |-> offset, bytes |-> bytes]

XfLast(op, id, ok, existed) == [op |-> op, id |-> id, ok |-> ok, existed |-> existed]

\* Two behaviours without records, an idle connection between them and
\* no destination file written.
NoXfer ==
    [next_send |-> 0,
     sends |-> <<>>,
     next_recv |-> 0,
     recvs |-> <<>>,
     ab |-> <<>>,
     ba |-> <<>>,
     files |-> [i \in 1..MaxXfers |-> <<>>],
     finished |-> <<>>,
     cancelled |-> {},
     cancelled_send |-> {},
     cancelled_recv |-> {},
     late |-> FALSE,
     last |-> XfLast("-", 0, FALSE, FALSE)]

HasSend(x, send_id) == \E i \in 1..Len(x.sends) : x.sends[i].send_id = send_id
HasRecv(x, send_id) == \E i \in 1..Len(x.recvs) : x.recvs[i].send_id = send_id
HasRecvId(x, recv_id) == \E i \in 1..Len(x.recvs) : x.recvs[i].recv_id = recv_id
SendOf(x, send_id) == x.sends[CHOOSE i \in 1..Len(x.sends) : x.sends[i].send_id = send_id]
RecvOf(x, send_id) == x.recvs[CHOOSE i \in 1..Len(x.recvs) : x.recvs[i].send_id = send_id]
RecvById(x, recv_id) == x.recvs[CHOOSE i \in 1..Len(x.recvs) : x.recvs[i].recv_id = recv_id]

\* A cancellation that drops every record of the peer.
remove_recv_all(x, send_id) == [x EXCEPT !.recvs = <<>>]

\* Dropping the record of one transfer.
remove_send(x, send_id) ==
    [x EXCEPT !.sends = SelectSeq(@, LAMBDA r : r.send_id # send_id)]
remove_recv(x, send_id) ==
    [x EXCEPT !.recvs = SelectSeq(@, LAMBDA r : r.send_id # send_id)]

\* A cancel_send that answers Ok whether or not it found the record.
cancel_send_ok(x, send_id) ==
    [x EXCEPT !.last = XfLast("cancel_send", send_id, TRUE, HasSend(x, send_id))]

\* cancel_send(send_id): the record is removed, Cancel goes to the remote
\* and the callback gets Ok; without a record the callback gets the error.
cancel_send(x, send_id) ==
    IF HasSend(x, send_id)
    THEN [remove_send(x, send_id) EXCEPT
            !.ab = Append(@, XfPacket("Cancel", send_id, 0, 0)),
            !.cancelled_send = @ \cup {send_id},
            !.cancelled = @ \cup {send_id},
            !.last = XfLast("cancel_send", send_id, TRUE, TRUE)]
    ELSE [x EXCEPT !.last = XfLast("cancel_send", send_id, FALSE, FALSE)]

\* cancel_recv(recv_id), the same at the receiver.
cancel_recv(x, recv_id) ==
    IF HasRecvId(x, recv_id)
    THEN [remove_recv(x, RecvById(x, recv_id).send_id) EXCEPT
            !.ba = Append(@, XfPacket("Cancel", RecvById(x, recv_id).send_id, 0, 0)),
            !.cancelled_recv = @ \cup {recv_id},
            !.cancelled = @ \cup {RecvById(x, recv_id).send_id},
            !.last = XfLast("cancel_recv", recv_id, TRUE, TRUE)]
    ELSE [x EXCEPT !.last = XfLast("cancel_recv", recv_id, FALSE, FALSE)]

\* A sender that streams without waiting for the acknowledgement.
chunk_ready_eager(rec) == rec.started /\ rec.sent < FileChunks

\* The outbound state machine may take the next chunk of a transfer that
\* was accepted and has no chunk unacknowledged.
chunk_ready(rec) == rec.started /\ rec.sent = rec.acked /\ rec.sent < FileChunks

\* A sender that reads every chunk at the start of the file.
read_chunk_rewound(send_id, offset) == file_bytes(send_id)[1]

\* The chunk of the file at an offset.
read_chunk(send_id, offset) == file_bytes(send_id)[offset + 1]

\* Writing a chunk at its declared offset; what lies between the end of
\* the file and the offset reads as 0.
write_at(f, offset, bytes) ==
    IF offset < Len(f)
    THEN [f EXCEPT ![offset + 1] = bytes]
    ELSE f \o [i \in 1..(offset - Len(f)) |-> 0] \o <<bytes>>

\* A side that takes a packet for an id it does not know for a broken
\* stream and drops what it has.
discard_unknown_closing(x, pkt) ==
    [x EXCEPT !.sends = <<>>, !.recvs = <<>>,
              !.last = XfLast("discard", pkt.id, FALSE, FALSE)]

\* A packet for an id the side does not know is discarded.
discard_unknown(x, pkt) == [x EXCEPT !.last = XfLast("discard", pkt.id, FALSE, FALSE)]

\* The receiving behaviour and one packet of the sender.
on_packet_receiver(x, pkt) ==
    IF pkt.type = "SendRequest"
    THEN [x EXCEPT
            !.recvs = Append(@, [recv_id |-> x.next_recv, send_id |-> pkt.id,
                                 accepted |-> FALSE, received |-> 0]),
            !.next_recv = @ + 1,
            !.last = XfLast("SendRequest", pkt.id, FALSE, FALSE)]
    ELSE IF ~HasRecv(x, pkt.id)
    THEN discard_unknown(x, pkt)
    ELSE IF pkt.type = "Cancel"
    THEN [remove_recv(x, pkt.id) EXCEPT !.last = XfLast("Cancel", pkt.id, FALSE, TRUE)]
    ELSE IF ~RecvOf(x, pkt.id).accepted
    THEN discard_unknown(x, pkt)
    ELSE LET rec == RecvOf(x, pkt.id)
             f == write_at(x.files[rec.recv_id + 1], pkt.offset, pkt.bytes)
             y == [x EXCEPT
                     !.files[rec.recv_id + 1] = f,
                     !.late = @ \/ rec.recv_id \in x.cancelled_recv,
                     !.ba = Append(@, XfPacket("Ack", pkt.id, pkt.offset, 0)),
                     !.last = XfLast("Chunk", pkt.id, FALSE, TRUE)]
         IN  IF rec.received + 1 = FileChunks
             THEN [remove_recv(y, pkt.id) EXCEPT
                     !.finished = Append(@, [recv_id |-> rec.recv_id,
                                             send_id |-> pkt.id, bytes |-> f])]
             ELSE [y EXCEPT !.recvs =
                     [i \in 1..Len(@) |->
                        IF @[i].send_id = pkt.id
                        THEN [@[i] EXCEPT !.received = @ + 1] ELSE @[i]]]

\* The sending behaviour and one packet of the receiver.
on_packet_sender(x, pkt) ==
    IF ~HasSend(x, pkt.id)
    THEN discard_unknown(x, pkt)
    ELSE IF pkt.type = "Cancel"
    THEN [remove_send(x, pkt.id) EXCEPT !.last = XfLast("Cancel", pkt.id, FALSE, TRUE)]
    ELSE IF pkt.type = "Accept"
    THEN [x EXCEPT
            !.sends = [i \in 1..Len(@) |->
                         IF @[i].send_id = pkt.id
                         THEN [@[i] EXCEPT !.started = TRUE] ELSE @[i]],
            !.last = XfLast("Accept", pkt.id, FALSE, TRUE)]
    ELSE IF SendOf(x, pkt.id).acked + 1 = FileChunks
    THEN [remove_send(x, pkt.id) EXCEPT !.last = XfLast("Ack", pkt.id, FALSE, TRUE)]
    ELSE [x EXCEPT
            !.sends = [i \in 1..Len(@) |->
                         IF @[i].send_id = pkt.id
                         THEN [@[i] EXCEPT !.acked = @ + 1] ELSE @[i]],
            !.last = XfLast("Ack", pkt.id, FALSE, TRUE)]

(***************************************************************************)
(* owlnest-blob: recv_file and the receiver's filesystem                   *)
(***************************************************************************)
\* The paths a caller of recv_file names, and the one file name the
\* sender announced.
FsPaths == {<<"a">>, <<"b">>}
FsFileName == "f"

\* PathBuf::join for the announced file name.
join(path, name) == Append(path, name)

\* What a path names: nothing, a file with its bytes, or a directory.
Absent == [kind |-> "absent", data |-> <<>>]
FsFile(data) == [kind |-> "file", data |-> data]
FsDir == [kind |-> "dir", data |-> <<>>]
AllPaths == FsPaths \cup {join(p, FsFileName) : p \in FsPaths}

FsLast(op, recv_id, path, result) ==
    [op |-> op, recv_id |-> recv_id, path |-> path, result |-> result]

\* InEvent::AcceptFile: an opened file (Either::Left) or, in blob_transfer,
\* the path of a directory (Either::Right).
AcceptFile(recv_id, left, path) ==
    [recv_id |-> recv_id, left |-> left, path |-> path]

NoFs ==
    [ready |-> FALSE,
     files |-> [p \in AllPaths |-> Absent],
     recvs |-> [id \in 0..(MaxXfers - 1) |->
                  [file_name |-> FsFileName, accepted |-> FALSE,
                   dest |-> <<>>, written |-> 0]],
     chan |-> <<>>,
     last |-> FsLast("none", 0, <<>>, "none")]

\* OpenOptions::new().create_new(true).read(true).write(true).open(path):
\* O_CREAT|O_EXCL fails with AlreadyExists for whatever the path names.
open_create_new(files, path) ==
    IF files[path].kind = "absent"
    THEN [ok |-> TRUE, kind |-> "Ok", files |-> [files EXCEPT ![path] = FsFile(<<>>)]]
    ELSE [ok |-> FALSE, kind |-> "AlreadyExists", files |-> files]

\* OpenOptions::new().create(true).read(true).write(true).open(path): an
\* existing file is opened as it is, a directory cannot be opened to write.
open_create(files, path) ==
    CASE files[path].kind = "absent" ->
           [ok |-> TRUE, kind |-> "Ok", files |-> [files EXCEPT ![path] = FsFile(<<>>)]]
      [] files[path].kind = "file" ->
           [ok |-> TRUE, kind |-> "Ok", files |-> files]
      [] OTHER ->
           [ok |-> FALSE, kind |-> "IsADirectory", files |-> files]

\* Handle::recv_file of protocols/blob.rs: the open fails before any command
\* is sent; otherwise AcceptFile goes to the swarm task with the open file.
recv_file(f, recv_id, path) ==
    LET o == open_create_new(f.files, path)
    IN  IF ~o.ok
        THEN [f EXCEPT !.last = FsLast("recv_file", recv_id, path, o.kind)]
        ELSE [f EXCEPT !.files = o.files,
                       !.chan = Append(@, AcceptFile(recv_id, TRUE, path)),
                       !.last = FsLast("recv_file", recv_id, path, "Sent")]

\* Handle::recv_file of protocols/blob_transfer/mod.rs: a file that opens
\* is Either::Left, IsADirectory makes the path Either::Right, any other
\* error returns FsError.
blob_transfer_recv_file(f, recv_id, path) ==
    LET o == open_create(f.files, path)
    IN  CASE o.ok ->
               [f EXCEPT !.files = o.files,
                         !.chan = Append(@, AcceptFile(recv_id, TRUE, path)),
                         !.last = FsLast("recv_file", recv_id, path, "Sent")]
          [] o.kind = "IsADirectory" ->
               [f EXCEPT !.chan = Append(@, AcceptFile(recv_id, FALSE, path)),
                         !.last = FsLast("recv_file", recv_id, path, "Sent")]
          [] OTHER ->
               [f EXCEPT !.last = FsLast("recv_file", recv_id, path, o.kind)]

\* The behaviour on AcceptFile: the record must be pending; a directory
\* gets a new file named with the announced file name, created with
\* create_new; the record is then accepted and the callback answers Ok.
on_accept_file(f, cmd) ==
    LET rec == f.recvs[cmd.recv_id]
        inner == join(cmd.path, rec.file_name)
        o == open_create_new(f.files, inner)
    IN  CASE rec.accepted ->
               [f EXCEPT !.last = FsLast("accept", cmd.recv_id, cmd.path, "NotFound")]
          [] cmd.left ->
               [f EXCEPT !.recvs[cmd.recv_id].accepted = TRUE,
                         !.recvs[cmd.recv_id].dest = cmd.path,
                         !.last = FsLast("accept", cmd.recv_id, cmd.path, "Ok")]
          [] ~o.ok ->
               [f EXCEPT !.last = FsLast("accept", cmd.recv_id, cmd.path, o.kind)]
          [] OTHER ->
               [f EXCEPT !.files = o.files,
                         !.recvs[cmd.recv_id].accepted = TRUE,
                         !.recvs[cmd.recv_id].dest = inner,
                         !.last = FsLast("accept", cmd.recv_id, cmd.path, "Ok")]


(***************************************************************************)
(* owlnest: messaging::Handle::send_message, calls and result events       *)
(***************************************************************************)
CorrPeers == {"P", "Q"}

\* The first id of the handle's counter: AtomicU64::new(0) in messaging.rs,
\* AtomicU64::new(1) in messaging/mod.rs.
first_id(version) == IF version = "messaging.rs" THEN 0 ELSE 1

\* A call of send_message; by is the id of the command whose event
\* resolved it.
CorrIdle == [pc |-> "idle", id |-> 0, peer |-> "-", result |-> "none", by |-> 0]

\* An event of the behaviour on the broadcast channel; origin is the id of
\* the command it answers.
CorrEvent(type, result, id, peer, origin) ==
    [type |-> type, result |-> result, id |-> id, peer |-> peer, origin |-> origin]

NoCorr ==
    [version |-> "none",
     counter |-> 0,
     connected |-> {},
     callers |-> [k \in 1..MaxCalls |-> CorrIdle],
     chan |-> <<>>,
     handler |-> [p \in CorrPeers |-> <<>>],
     events |-> <<>>]

\* The filter of send_message in messaging/mod.rs: SuccessfulSend(id) with
\* the call's id, or Error(PeerNotFound(peer)) with the call's peer.
single_value_filter(call, ev) ==
    IF /\ call.pc = "waiting"
       /\ \/ ev.type = "SuccessfulSend" /\ ev.id = call.id
          \/ ev.type = "PeerNotFound" /\ ev.peer = call.peer
    THEN [call EXCEPT !.pc = "idle", !.result = ev.result]
    ELSE call

\* What a call makes of a broadcast event, in the version of the handle.
listen(version, call, ev) ==
    LET after == IF version = "messaging.rs"
                 THEN IF ev.type = "SendResult"
                      THEN send_result_listen(call, ev.result, ev.id)
                      ELSE call
                 ELSE single_value_filter(call, ev)
    IN  IF after.pc # call.pc THEN [after EXCEPT !.by = ev.origin] ELSE after

\* The event the behaviour emits for a result of command id to peer.
result_event(version, result, id, peer) ==
    CASE version = "messaging.rs" -> CorrEvent("SendResult", result, id, peer, id)
      [] result = "Ok" -> CorrEvent("SuccessfulSend", result, id, peer, id)
      [] result = "PeerNotFound" -> CorrEvent("PeerNotFound", result, 0, peer, id)
      [] OTHER -> CorrEvent("Error", result, 0, peer, id)

(***************************************************************************)
(* owlnest: the handle methods that wait for a broadcast event             *)
(***************************************************************************)
EventMethods == {"query_advertised_peer", "remove_advertised", "send_message"}

\* The peer the calls are about.
SubRelay == "B"

\* Mutant: a method that sends its command and subscribes afterwards.
call_steps_late(method) == <<"send", "subscribe">>

\* The order in which a method subscribes to the event broadcast and sends
\* its command: subscribe() first in each of the three.
call_steps(method) ==
    CASE method = "query_advertised_peer" -> <<"subscribe", "send">>
      [] method = "remove_advertised" -> <<"subscribe", "send">>
      [] method = "send_message" -> <<"subscribe", "send">>

\* A call: at is the number of steps of call_steps it has taken; id is the
\* operation id of send_message; buf is what its subscription holds; heard
\* says that the event made for its command reached the subscription,
\* missed that it was broadcast with no subscription; by is the id of the
\* call whose command made the event that resolved it.  Every call has an
\* id, which only send_message passes on.
SubIdle ==
    [method |-> "-", at |-> 0, subscribed |-> FALSE, sent |-> FALSE, id |-> 0,
     buf |-> <<>>, lagged |-> FALSE, heard |-> FALSE, missed |-> FALSE,
     st |-> "idle", by |-> -1]

NoSubs ==
    [callers |-> [k \in 1..MaxCalls |-> SubIdle],
     counter |-> 0,
     chan |-> <<>>,
     evq |-> <<>>,
     is_providing |-> FALSE]

\* The closures of listen_event! in the three methods: whether a broadcast
\* event ends the wait of a call.
answers_call(k, call, item) ==
    LET ev == item.ev
    IN  CASE call.method = "query_advertised_peer" ->
               listen_event([NoQuery EXCEPT !.st = "waiting", !.relay = SubRelay],
                            ev).st = "done"
          [] call.method = "remove_advertised" ->
               ev.type = "AdvertisedPeerChanged" /\ ev.peer = SubRelay
          [] call.method = "send_message" ->
               ev.type = "SendResult" /\ ev.id = call.id
          [] OTHER -> FALSE

\* The event the swarm produces for a command, with the call it answers.
event_for(cmd, is_providing) ==
    [origin |-> cmd.id,
     ev |-> CASE cmd.method = "query_advertised_peer" ->
                   OutEvent("QueryAnswered", SubRelay, FALSE, 0,
                            SomeList(IF is_providing THEN {SubRelay} ELSE {}), "-")
              [] cmd.method = "remove_advertised" ->
                   OutEvent("AdvertisedPeerChanged", SubRelay, TRUE, 0, NoList, "-")
              [] cmd.method = "send_message" ->
                   OutEvent("SendResult", SubRelay, TRUE, cmd.id, NoList, "-")]

(***************************************************************************)
(* The handlers with the outcomes of their I/O: owlnest-advertise          *)
(* handler.rs and its forerunner relay_ext/handler.rs                      *)
(***************************************************************************)
HandlerVersions == {"advertise", "relay_ext"}

\* Bytes that are no Packet.
Garbled == [tag |-> "garbled", body |-> "-", items |-> {}]

\* Whether serde_json::from_slice::<Packet> returns Ok.
parses(bytes) ==
    bytes.tag \in {"AdvertiseSelf", "QueryAdvertisedPeer", "AnswerAdvertisedPeer"}

HandlerError(err) == ToBehaviour("Error", FALSE, NoList, err)

\* The event a completed recv makes of its bytes.
frame_event(bytes) ==
    IF parses(bytes) THEN packet_into(from_slice(bytes))
    ELSE HandlerError("UnrecognizedMessage")

\* Mutant: a frame that does not parse ends the inbound stream.
recv_completed_fatal(h, bytes) ==
    [h EXCEPT !.inbound = IF parses(bytes) THEN "Recv" ELSE "None",
              !.pending_out_events = Append(@, frame_event(bytes))]

\* poll_inbound, Poll::Ready(Ok((stream, bytes))): a recv is armed on the
\* stream again, then the bytes are parsed.
recv_completed(h, bytes) ==
    [h EXCEPT !.inbound = "Recv",
              !.pending_out_events = Append(@, frame_event(bytes))]

\* Mutant: a failed recv also gives the outbound stream up.
recv_failed_closing(h) ==
    [h EXCEPT !.inbound = "None", !.outbound = "None", !.sending = NoPacket,
              !.pending_out_events = Append(@, HandlerError("IO"))]

\* poll_inbound, Poll::Ready(Err(e)).
recv_failed(h) ==
    [h EXCEPT !.inbound = "None",
              !.pending_out_events = Append(@, HandlerError("IO"))]

\* poll_outbound, Busy, Poll::Ready(Err(e)): the stream went with take().
send_failed(h) ==
    [h EXCEPT !.outbound = "None", !.sending = NoPacket,
              !.pending_out_events = Append(@, HandlerError("IO"))]

\* Mutant: a send that timed out is queued again.
send_timed_out_retrying(h) ==
    [h EXCEPT !.outbound = "None", !.sending = NoPacket,
              !.pending_in_events = <<FromBehaviour(
                    IF h.sending.type = "AdvertiseSelf" THEN "SetAdvertiseSelf"
                    ELSE h.sending.type, h.sending.flag, h.sending.payload)>> \o @,
              !.pending_out_events = Append(@, HandlerError("Timeout"))]

\* poll_outbound, Busy, the send pending and the timer ready.
send_timed_out(h) ==
    [h EXCEPT !.outbound = "None", !.sending = NoPacket,
              !.pending_out_events = Append(@, HandlerError("Timeout"))]

\* recv: what the armed recv future returns when polled, Pending, Ok with
\* the oldest frame of rx, or Err.
poll_inbound_io(h, rx, recv) ==
    IF h.inbound # "Recv" \/ recv = "Pending"
    THEN [h |-> h, rx |-> rx]
    ELSE IF recv = "Err"
    THEN [h |-> recv_failed(h), rx |-> rx]
    ELSE [h |-> recv_completed(h, Head(rx)), rx |-> Tail(rx)]

\* The loop of poll_outbound.  send and timer: what the pending send and
\* its Delay return when polled; a send begun in this call stays pending.
\* sent: the packets whose send completed.
RECURSIVE poll_outbound_io(_, _, _, _, _)
poll_outbound_io(h, send, timer, sent, started) ==
    CASE h.outbound = "Busy" ->
           IF started \/ (send = "Pending" /\ ~timer)
           THEN [h |-> h, request |-> FALSE, sent |-> sent]
           ELSE IF send = "Pending"
           THEN poll_outbound_io(send_timed_out(h), send, timer, sent, FALSE)
           ELSE IF send = "Err"
           THEN poll_outbound_io(send_failed(h), send, timer, sent, FALSE)
           ELSE poll_outbound_io([h EXCEPT !.outbound = "Idle", !.sending = NoPacket],
                                 send, timer, Append(sent, h.sending), FALSE)
      [] h.outbound = "Idle" ->
           IF h.pending_in_events = <<>>
           THEN [h |-> h, request |-> FALSE, sent |-> sent]
           ELSE poll_outbound_io(
                    [h EXCEPT !.pending_in_events = Tail(@), !.outbound = "Busy",
                              !.sending = packet_of(Head(h.pending_in_events))],
                    send, timer, sent, TRUE)
      [] h.outbound = "OpenStream" ->
           [h |-> h, request |-> FALSE, sent |-> sent]
      [] h.outbound = "None" ->
           [h |-> [h EXCEPT !.outbound = "OpenStream"], request |-> TRUE,
            sent |-> sent]

\* What a poll returns: the handler, the frames left, the kind of the
\* result, its event and the packets written.
Polled(h, rx, kind, ev, sent) ==
    [h |-> h, rx |-> rx, kind |-> kind, ev |-> ev, sent |-> sent]

\* Handler::poll of owlnest-advertise.
Handler_poll_io(h, rx, recv, send, timer) ==
    IF h.state = "Inactive_reported"
    THEN Polled(h, rx, "Pending", NoToBehaviour, <<>>)
    ELSE
      LET h0 == IF h.state = "Inactive_unreported"
                THEN [h EXCEPT !.state = "Inactive_reported"] ELSE h
          inb == poll_inbound_io(h0, rx, recv)
          out == poll_outbound_io(inb.h, send, timer, <<>>, FALSE)
      IN  IF out.request
          THEN Polled(out.h, inb.rx, "OutboundSubstreamRequest", NoToBehaviour,
                      out.sent)
          ELSE IF out.h.pending_out_events # <<>>
          THEN Polled([out.h EXCEPT !.pending_out_events = Tail(@)], inb.rx,
                      "NotifyBehaviour", Head(out.h.pending_out_events), out.sent)
          ELSE Polled(out.h, inb.rx, "Pending", NoToBehaviour, out.sent)

\* The loop of Handler::poll of relay_ext.  pending_out_events is filled
\* with push_front and emptied with pop_back: its head here is its back
\* there, so push_back puts an event before the others.  After an arm that
\* does not leave the loop one event is returned if there is any.
RECURSIVE relay_ext_loop(_, _, _, _, _, _)
relay_ext_loop(h, rx, send, timer, sent, started) ==
    LET after(h1, sent1, started1) ==
            IF h1.pending_out_events # <<>>
            THEN Polled([h1 EXCEPT !.pending_out_events = Tail(@)], rx,
                        "NotifyBehaviour", Head(h1.pending_out_events), sent1)
            ELSE relay_ext_loop(h1, rx, send, timer, sent1, started1)
    IN
    CASE h.outbound = "Busy" ->
           IF started \/ (send = "Pending" /\ ~timer)
           THEN Polled(h, rx, "Pending", NoToBehaviour, sent)
           ELSE IF send = "Pending"
           THEN after([h EXCEPT !.outbound = "None", !.sending = NoPacket,
                                !.pending_out_events =
                                    <<HandlerError("Timeout")>> \o @], sent, FALSE)
           ELSE IF send = "Err"
           THEN after([h EXCEPT !.outbound = "None", !.sending = NoPacket,
                                !.pending_out_events =
                                    <<HandlerError("IO")>> \o @], sent, FALSE)
           ELSE after([h EXCEPT !.outbound = "Idle", !.sending = NoPacket],
                      Append(sent, h.sending), FALSE)
      [] h.outbound = "Idle" ->
           IF h.pending_in_events = <<>>
           THEN Polled(h, rx, "Pending", NoToBehaviour, sent)
           ELSE LET ev == Head(h.pending_in_events)
                    h1 == [h EXCEPT !.pending_in_events = Tail(@)]
                IN  IF ev.type \in {"QueryAdvertisedPeer", "AnswerAdvertisedPeer"}
                    THEN after([h1 EXCEPT !.outbound = "Busy",
                                          !.sending = packet_of(ev)], sent, TRUE)
                    ELSE after([h1 EXCEPT !.outbound = "None"], sent, FALSE)
      [] h.outbound = "OpenStream" ->
           Polled(h, rx, "Pending", NoToBehaviour, sent)
      [] h.outbound = "None" ->
           Polled([h EXCEPT !.outbound = "OpenStream"], rx,
                  "OutboundSubstreamRequest", NoToBehaviour, sent)

\* Handler::poll of relay_ext: Unsupported is reported once; a completed
\* recv queues the event of its frame and returns IncomingQuery at once.
relay_ext_poll(h, rx, recv, send, timer) ==
    CASE h.state = "Inactive_reported" ->
           Polled(h, rx, "Pending", NoToBehaviour, <<>>)
      [] h.state = "Inactive_unreported" ->
           Polled([h EXCEPT !.state = "Inactive_reported"], rx, "NotifyBehaviour",
                  ToBehaviour("Unsupported", FALSE, NoList, "-"), <<>>)
      [] OTHER ->
           IF h.inbound = "Recv" /\ recv = "Ok"
           THEN Polled(recv_completed(h, Head(rx)), Tail(rx), "NotifyBehaviour",
                       ToBehaviour("IncomingQuery", FALSE, NoList, "-"), <<>>)
           ELSE relay_ext_loop(IF h.inbound = "Recv" /\ recv = "Err"
                               THEN recv_failed(h) ELSE h,
                               rx, send, timer, <<>>, FALSE)

\* The poll of the handler of a version.
version_poll(version, h, rx, recv, send, timer) ==
    IF version = "advertise"
    THEN Handler_poll_io(h, rx, recv, send, timer)
    ELSE relay_ext_poll(h, rx, recv, send, timer)

\* Whether a poll of the handler gets to its recv future: not once
\* Inactive is reported, and in relay_ext not while it reports it.
polls_recv(version, h) ==
    \/ h.state = "Active"
    \/ version = "advertise" /\ h.state = "Inactive_unreported"

\* Whether it gets to its send future: relay_ext returns before when a
\* recv completed.
polls_send(version, h, recv) ==
    /\ polls_recv(version, h)
    /\ ~(version = "relay_ext" /\ recv = "Ok")

\* The commands the behaviour of a version gives its handler.
HdCommands(version) ==
    IF version = "advertise"
    THEN {FromBehaviour("QueryAdvertisedPeer", FALSE, NoList),
          FromBehaviour("SetAdvertiseSelf", TRUE, NoList)}
    ELSE {FromBehaviour("QueryAdvertisedPeer", FALSE, NoList),
          FromBehaviour("StartAdvertiseSelf", FALSE, NoList)}

\* The frames the remote writes on the inbound stream.
HdFrames ==
    {as_bytes(Packet("QueryAdvertisedPeer", FALSE, NoList)), Garbled}

\* The number of Error events with err in a queue of events and the event
\* a poll returned.
errors(err, queue, kind, ev) ==
    LET is(e) == e.type = "Error" /\ e.err = err
    IN  Len(SelectSeq(queue, is))
          + (IF kind = "NotifyBehaviour" /\ is(ev) THEN 1 ELSE 0)

\* The packets of the commands whose send completed, in the order of the
\* commands.
sent_of(submitted, fate) ==
    LET is_sent(i) == fate[i] = "sent"
        idx == SelectSeq([i \in 1..Len(fate) |-> i], is_sent)
    IN  [k \in 1..Len(idx) |-> packet_of(submitted[idx[k]])]

\* Whether an event is one a completed recv makes.
of_frame(ev) ==
    \/ ev.type \in {"IncomingQuery", "QueryAnswered", "IncomingAdvertiseReq"}
    \/ ev.type = "Error" /\ ev.err = "UnrecognizedMessage"

HdLast(op, recv, send, timer, kind, ev) ==
    [op |-> op, recv |-> recv, send |-> send, timer |-> timer, kind |-> kind,
     ev |-> ev]

\* h: the handler; rx: frames on the inbound stream not yet read; frames:
\* the frames completed recvs returned; delivered: the events of frames
\* given to the behaviour; submitted: the commands of the behaviour; fate:
\* what became of each command taken from the queue, sending, sent, lost or
\* dropped; written: the packets whose send completed; requests: outbound
\* substream requests not yet answered.
NoHd ==
    [version |-> "-", h |-> Handler_new, rx |-> <<>>, frames |-> <<>>,
     delivered |-> <<>>, submitted |-> <<>>, fate |-> <<>>, written |-> <<>>,
     requests |-> 0,
     last |-> HdLast("-", "Pending", "Pending", FALSE, "-", NoToBehaviour)]

(***************************************************************************)
(* State                                                                   *)
(***************************************************************************)
VARIABLES
    beh,        \* beh[n]: the advertise Behaviour of node n
    hyper,      \* hyper[n]: connected_peers of the hyper Behaviour of node n
    conns,      \* conns[n][p]: connections node n has established with peer p
    hand,       \* hand[n][p]: the advertise Handler of n's connection to p
    wire,       \* wire[n][m]: frames written by n's outbound substream to m
    hq,         \* hq[n]: the query_advertised_peer call in progress on n's handle
    last,       \* the step just taken, when it was a poll (with what it returned),
                \* an advertisement request or a closed connection
    lastSet,    \* lastSet[n]: status of the last SetProviderState processed by n
    scen,       \* progress of the provider toggle scenario of ScenPeer on ScenNode
    chan,       \* commands sent by the handle of OrderNode that the swarm task
                \* has not received yet (the protocol mpsc channel)
    ord,        \* the commands and packets of OrderNode, in the order they
                \* passed each stage on their way to OrderPeer
    swarm_rx,   \* swarm operations sent by handles, not yet received
    sw,         \* the libp2p swarm: listeners, external addresses, dials
    calls,      \* calls[c]: a call made on a handle of OrderNode
    task,       \* the swarm task: where its loop stands
    evq,        \* swarm events sent on ev_tx that were not received yet
    blob,       \* blob transfer: the sender's handle and records, the
                \* packets on the way and the receiver's records
    msg,        \* messaging: the sender's handle and handler, the stream
                \* and the receiver's handler and behaviour
    xfer,       \* blob transfer: the records of sender and receiver, the
                \* packets between them and the destination files
    fs,         \* blob transfer: the receiver's filesystem, its pending
                \* records and the AcceptFile commands of its handle
    corr,       \* messaging: the send_message calls in flight on one
                \* handle and the result events on their way to them
    subs,       \* handles: the calls that wait for a broadcast event, from
                \* their subscription to the event that answers them
    hd          \* one connection handler with the outcomes of its I/O, the
                \* frames it read and the packets it wrote

vars ==
    <<beh, hyper, conns, hand, wire, hq, last, lastSet, scen, chan, ord,
      swarm_rx, sw, calls, task, evq, blob, msg, xfer, fs, corr, subs,
      hd>>
netVars == <<hand, wire, hq>>
taskVars == <<swarm_rx, sw, calls, task, evq>>
coreVars == <<beh, hyper, conns, netVars, last, lastSet, scen>>
auxVars == <<chan, ord, taskVars, blob, msg, xfer, fs, corr, subs, hd>>

Step(op, node, peer, flag) ==
    [op |-> op, node |-> node, peer |-> peer, flag |-> flag, rep |-> FALSE,
     was |-> FALSE, kind |-> "-", cmd |-> "-", hev |-> NoFromBehaviour,
     oev |-> NoOutEvent]

NoStep == Step("-", NoPeer, NoPeer, FALSE)

PollStep(node, res) ==
    [op |-> "poll", node |-> node, peer |-> res.peer, flag |-> FALSE,
     rep |-> FALSE, was |-> FALSE, kind |-> res.kind,
     cmd |-> IF res.kind # "Pending" /\ res.processed # <<>>
             THEN res.processed[Len(res.processed)].type ELSE "-",
     hev |-> res.hev, oev |-> res.oev]

\* Items waiting in the queues of a behaviour.
Queued(b) ==
    Len(b.in_events) + Len(b.pending_out_events) + Len(b.pending_query_answer)

\* What node n has to work off: queued items of its behaviour and handlers,
\* packets being sent and frames it wrote that were not read yet.
Load(n) ==
    Queued(beh[n])
    + Cardinality(UNION {
          {<<p, i>> : i \in 1..(Len(hand[n][p].pending_in_events)
                                + Len(hand[n][p].pending_out_events)
                                + IF hand[n][p].outbound = "Busy" THEN 1 ELSE 0)}
          : p \in Peers})
    + Cardinality(UNION {{<<m, i>> : i \in 1..Len(wire[n][m])} : m \in Nodes})

\* The provider and the advertised peer whose toggle scenario is followed.
ScenNode == "A"
ScenPeer == "B"

\* mode "off": the provider went off with the peer advertised; "on": it is
\* back on since; "ins" / "rem": the peer's last AdvertiseSelf(true / false)
\* arrived while the provider was off.  removed: the entry was taken away by
\* a command or a closed connection while in "off" or "on".
NoScen == [mode |-> "-", removed |-> FALSE]

ScenRemoved(sc) ==
    IF sc.mode \in {"off", "on"} THEN [sc EXCEPT !.removed = TRUE] ELSE NoScen

ScenAdvertiseReq(b, flag) ==
    IF b.is_providing THEN NoScen
    ELSE [mode |-> IF flag THEN "ins" ELSE "rem", removed |-> FALSE]

\* The scenario of peer p after the commands cmds, taken in order from a
\* behaviour whose advertised set was adv.
RECURSIVE ScenAfterCmds(_, _, _, _)
ScenAfterCmds(sc, adv, cmds, p) ==
    IF cmds = <<>> THEN sc
    ELSE
      LET c == Head(cmds) IN
      CASE c.type = "ClearAdvertised" ->
             ScenAfterCmds(ScenRemoved(sc), {}, Tail(cmds), p)
        [] c.type = "RemoveAdvertised" /\ c.peer = p ->
             ScenAfterCmds(ScenRemoved(sc), adv \ {p}, Tail(cmds), p)
        [] c.type = "SetProviderState" /\ ~c.flag ->
             ScenAfterCmds(IF p \in adv THEN [mode |-> "off", removed |-> FALSE]
                           ELSE NoScen, adv, Tail(cmds), p)
        [] c.type = "SetProviderState" /\ c.flag ->
             ScenAfterCmds(IF sc.mode = "off" THEN [sc EXCEPT !.mode = "on"]
                           ELSE sc, adv, Tail(cmds), p)
        [] OTHER -> ScenAfterCmds(sc, adv, Tail(cmds), p)

\* The node whose commands are followed through the stages, and the peer
\* they are about.
OrderNode == "A"
OrderPeer == "B"

\* submitted: commands the handle sent; processed: commands poll took from
\* in_events; handed: commands given to the handler of the connection to
\* OrderPeer; written: frames that handler wrote to its outbound substream;
\* delivered: events OrderPeer's handler passed to its behaviour.
NoOrder ==
    [submitted |-> <<>>, processed |-> <<>>, handed |-> <<>>, written |-> <<>>,
     delivered |-> <<>>]

LastSetAfterPoll(ls, res) ==
    IF res.processed # <<>>
       /\ res.processed[Len(res.processed)].type = "SetProviderState"
    THEN IF res.processed[Len(res.processed)].flag THEN "true" ELSE "false"
    ELSE ls

Init ==
    /\ beh = [n \in Nodes |-> Behaviour_new]
    /\ hyper = [n \in Nodes |-> {}]
    /\ conns = [n \in Nodes |-> [p \in Peers |-> 0]]
    /\ hand = [n \in Nodes |-> [p \in Peers |-> NoHandler]]
    /\ wire = [n \in Nodes |-> [m \in Nodes |-> <<>>]]
    /\ hq = [n \in Nodes |-> NoQuery]
    /\ last = NoStep
    /\ lastSet = [n \in Nodes |-> "none"]
    /\ scen = NoScen
    /\ chan = <<>>
    /\ ord = NoOrder
    /\ swarm_rx = <<>>
    /\ sw = NewSwarm
    /\ calls = [c \in 1..MaxCalls |-> NoCall]
    /\ task = NoTask
    /\ evq = <<>>
    /\ blob = NoBlob
    /\ msg = NoMsg
    /\ xfer = NoXfer
    /\ fs = NoFs
    /\ corr = NoCorr
    /\ subs = NoSubs
    /\ hd = NoHd

(***************************************************************************)
(* Spec: one node's behaviours under the swarm                             *)
(***************************************************************************)
\* A handle submits a command and the swarm task hands it to push_event.
Command(n, ev) ==
    /\ Load(n) < MaxQueue
    /\ beh' = [beh EXCEPT ![n] = push_event(@, ev)]
    /\ last' = NoStep
    /\ UNCHANGED <<hyper, conns, netVars, lastSet, scen>>

\* The swarm reports a new connection to p: each behaviour builds its handler
\* (hyper counts the peer there) and then sees ConnectionEstablished.
SwarmConnectionEstablished(n, p) ==
    /\ conns[n][p] < MaxConns
    /\ conns' = [conns EXCEPT ![n][p] = @ + 1]
    /\ beh' = [beh EXCEPT ![n] = connection_established(@, p)]
    /\ hyper' = [hyper EXCEPT ![n] = on_connect(@, p)]
    /\ last' = NoStep
    /\ UNCHANGED <<netVars, lastSet, scen>>

\* The swarm reports that one connection to p closed.
SwarmConnectionClosed(n, p) ==
    /\ conns[n][p] >= 1
    /\ conns' = [conns EXCEPT ![n][p] = @ - 1]
    /\ beh' = [beh EXCEPT ![n] = connection_closed(@, p, conns[n][p] - 1)]
    /\ hyper' = [hyper EXCEPT ![n] = on_disconnect(@, p, conns[n][p] - 1)]
    /\ last' = [Step("ConnectionClosed", n, p, conns[n][p] - 1 >= 1) EXCEPT
                   !.was = is_advertising(beh[n], p)]
    /\ scen' = IF n = ScenNode /\ p = ScenPeer /\ conns[n][p] - 1 < 1
                THEN ScenRemoved(scen) ELSE scen
    /\ hand' = IF conns[n][p] - 1 < 1
                THEN [hand EXCEPT ![n][p] = NoHandler] ELSE hand
    /\ wire' = IF conns[n][p] - 1 < 1 /\ p \in Nodes
                THEN [wire EXCEPT ![p][n] = <<>>] ELSE wire
    /\ UNCHANGED <<hq, lastSet>>

\* The swarm passes an event of p's handler to the behaviour.
NotifyBehaviour(n, p, event) ==
    /\ beh' = [beh EXCEPT ![n] = on_connection_handler_event(@, p, event)]
    /\ last' = IF event.type = "IncomingAdvertiseReq"
                THEN [Step(event.type, n, p, event.flag) EXCEPT
                         !.rep = /\ last.op = event.type /\ last.node = n
                                 /\ last.peer = p /\ last.flag = event.flag]
                ELSE NoStep
    /\ scen' = IF event.type = "IncomingAdvertiseReq" /\ n = ScenNode
                   /\ p = ScenPeer
                THEN ScenAdvertiseReq(beh[n], event.flag) ELSE scen

\* A handler of an established connection to p hands an event over.
HandlerEvent(n, p, event) ==
    /\ conns[n][p] >= 1
    /\ event.type \in {"IncomingQuery", "QueryAnswered", "Error"}
          => Queued(beh[n]) < MaxQueue
    /\ NotifyBehaviour(n, p, event)
    /\ UNCHANGED <<hyper, conns, netVars, lastSet>>

\* The swarm polls the behaviour, which has something queued.
Poll(n) ==
    /\ Queued(beh[n]) > 0
    /\ LET res == Behaviour_poll(beh[n]) IN
        /\ beh' = [beh EXCEPT ![n] = res.b]
        /\ last' = PollStep(n, res)
        /\ lastSet' = [lastSet EXCEPT ![n] = LastSetAfterPoll(@, res)]
        /\ scen' = IF n = ScenNode
                    THEN ScenAfterCmds(scen, beh[n].advertised_peers,
                                       res.processed, ScenPeer)
                    ELSE scen
        /\ hand' = IF res.kind = "NotifyHandler"
                       /\ hand[n][res.peer].state # "Dropped"
                    THEN [hand EXCEPT ![n][res.peer] =
                             on_behaviour_event(@, res.hev)]
                    ELSE hand
        /\ hq' = [hq EXCEPT ![n] =
                     QueryProcessed(IF res.kind = "GenerateEvent"
                                    THEN listen_event(@, res.oev) ELSE @,
                                    beh[n], res.processed)]
    /\ UNCHANGED <<hyper, conns, wire>>

Next ==
    \/ \E ev \in InEvents(UnitPeers) :
          Command(UnitNode, ev) /\ UNCHANGED auxVars
    \/ \E p \in UnitPeers :
          SwarmConnectionEstablished(UnitNode, p) /\ UNCHANGED auxVars
    \/ \E p \in UnitPeers :
          SwarmConnectionClosed(UnitNode, p) /\ UNCHANGED auxVars
    \/ \E p \in UnitPeers, event \in ToBehaviours(UnitPeers) :
          HandlerEvent(UnitNode, p, event) /\ UNCHANGED auxVars
    \/ Poll(UnitNode) /\ UNCHANGED auxVars

Spec == Init /\ [][Next]_vars

(***************************************************************************)
(* SpecNet: nodes joined by connections, handlers and substreams           *)
(***************************************************************************)
\* NetNode holds the handle that queries; its peers are the provider
\* NetRelay and the peer U without the protocol.
NetNode == "A"
NetRelay == "B"
NetPeers(n) == IF n = NetNode THEN {NetRelay} \cup Unsupporting ELSE {NetNode}
NetRelays == {NetRelay} \cup Unsupporting

\* The commands issued in SpecNet besides the query.
NetCommands(n) ==
    IF n = NetNode
    THEN {InEvent("SetRemoteAdvertisement", NetRelay, f, 0) : f \in BOOLEAN}
    ELSE {InEvent("SetProviderState", NoPeer, f, 0) : f \in BOOLEAN}

\* What the nodes together have to work off.
NetLoad == Load(NetNode) + Load(NetRelay)

\* A handle of n submits a command while the net is not loaded.
NetCommand(n, ev) ==
    /\ NetLoad < MaxNetLoad
    /\ Command(n, ev)

\* A connection between n and p is established; each swarm that runs the
\* behaviours builds the handler and reports ConnectionEstablished.
NetConnectionEstablished(n, p) ==
    LET ends == IF p \in Nodes THEN {n, p} ELSE {n}
        other(m) == IF m = n THEN p ELSE n
    IN  /\ \A m \in ends : conns[m][other(m)] = 0
        /\ conns' = [m \in Nodes |->
                       IF m \in ends THEN [conns[m] EXCEPT ![other(m)] = 1]
                       ELSE conns[m]]
        /\ beh' = [m \in Nodes |->
                     IF m \in ends THEN connection_established(beh[m], other(m))
                     ELSE beh[m]]
        /\ hyper' = [m \in Nodes |->
                       IF m \in ends THEN on_connect(hyper[m], other(m))
                       ELSE hyper[m]]
        /\ hand' = [m \in Nodes |->
                      IF m \in ends THEN [hand[m] EXCEPT ![other(m)] = Handler_new]
                      ELSE hand[m]]
        /\ last' = NoStep
        /\ UNCHANGED <<wire, hq, lastSet, scen>>

\* The outbound substream n's handler asked for is negotiated with p, whose
\* handler gets it as its inbound substream; frames of an earlier substream
\* that p did not read are gone with the recv future it replaces.
Negotiate(n, p) ==
    /\ p \in Nodes
    /\ hand[n][p].outbound = "OpenStream"
    /\ hand[p][n].state # "Dropped"
    /\ hand' = [hand EXCEPT ![n][p] = fully_negotiated_outbound(@),
                            ![p][n] = fully_negotiated_inbound(@)]
    /\ wire' = [wire EXCEPT ![n][p] = <<>>]
    /\ last' = NoStep
    /\ UNCHANGED <<beh, hyper, conns, hq, lastSet, scen>>

\* The errors the upgrade of an outbound substream to p can end with.
DialErrors(p) ==
    IF p \in Unsupporting THEN {"NegotiationFailed"} ELSE {"Timeout"}

DialUpgradeError(n, p, error) ==
    /\ hand[n][p].outbound = "OpenStream"
    /\ hand' = [hand EXCEPT ![n][p] = on_dial_upgrade_error(@, error)]
    /\ last' = NoStep
    /\ UNCHANGED <<beh, hyper, conns, wire, hq, lastSet, scen>>

\* The connection task polls the handler of n's connection to p, which
\* makes progress; an event it returns goes to the behaviour.
HandlerPoll(n, p) ==
    /\ hand[n][p].state # "Dropped"
    /\ LET rx == IF p \in Nodes THEN wire[p][n] ELSE <<>>
           res == Handler_poll(hand[n][p], rx)
       IN  /\ res.kind # "Pending" \/ res.h # hand[n][p]
           /\ hand' = [hand EXCEPT ![n][p] = res.h]
           /\ wire' = IF p \in Nodes
                      THEN [wire EXCEPT
                              ![p][n] = res.rx,
                              ![n][p] = IF hand[p][n].state # "Dropped"
                                        THEN @ \o res.sent ELSE @]
                      ELSE wire
           /\ IF res.kind = "NotifyBehaviour"
              THEN NotifyBehaviour(n, p, res.ev)
              ELSE /\ last' = NoStep
                   /\ UNCHANGED <<beh, scen>>
    /\ UNCHANGED <<hyper, conns, hq, lastSet>>

\* query_advertised_peer(relay): the handle subscribes to the events of the
\* behaviour and sends the command, which the swarm task hands to push_event.
QueryStart(n, relay) ==
    /\ hq[n].st # "waiting"
    /\ NetLoad < MaxNetLoad
    /\ hq' = [hq EXCEPT ![n] = [NoQuery EXCEPT !.st = "waiting", !.relay = relay,
                                               !.proc = "queued"]]
    /\ beh' = [beh EXCEPT ![n] =
                 push_event(@, InEvent("QueryAdvertisedPeer", relay, FALSE, 0))]
    /\ last' = NoStep
    /\ UNCHANGED <<hyper, conns, hand, wire, lastSet, scen>>

\* The 10 s of the call run out with no matching event seen; by then the
\* swarm task has worked off what the behaviour had queued.
QueryTimeout(n) ==
    /\ hq[n].st = "waiting"
    /\ Queued(beh[n]) = 0
    /\ hq' = [hq EXCEPT ![n] = query_timeout(@)]
    /\ last' = NoStep
    /\ UNCHANGED <<beh, hyper, conns, hand, wire, lastSet, scen>>

NextNet ==
    \/ \E n \in Nodes : \E ev \in NetCommands(n) :
          NetCommand(n, ev) /\ UNCHANGED auxVars
    \/ \E p \in NetPeers(NetNode) :
          NetConnectionEstablished(NetNode, p) /\ UNCHANGED auxVars
    \/ \E n \in Nodes : \E p \in NetPeers(n) :
          SwarmConnectionClosed(n, p) /\ UNCHANGED auxVars
    \/ \E n \in Nodes : \E p \in NetPeers(n) :
          Negotiate(n, p) /\ UNCHANGED auxVars
    \/ \E n \in Nodes : \E p \in NetPeers(n) : \E error \in DialErrors(p) :
          DialUpgradeError(n, p, error) /\ UNCHANGED auxVars
    \/ \E n \in Nodes : \E p \in NetPeers(n) :
          HandlerPoll(n, p) /\ UNCHANGED auxVars
    \/ \E relay \in NetRelays : QueryStart(NetNode, relay) /\ UNCHANGED auxVars
    \/ QueryTimeout(NetNode) /\ UNCHANGED auxVars
    \/ \E n \in Nodes : Poll(n) /\ UNCHANGED auxVars

SpecNet == Init /\ [][NextNet]_vars

(***************************************************************************)
(* SpecOrder: the commands of one handle on their way to one peer          *)
(***************************************************************************)
\* The commands the handle of OrderNode submits.
OrderCommands ==
    {InEvent("SetProviderState", NoPeer, f, 0) : f \in BOOLEAN}
    \cup {InEvent("SetRemoteAdvertisement", OrderPeer, f, 0) : f \in BOOLEAN}
    \cup {InEvent("QueryAdvertisedPeer", OrderPeer, FALSE, 0)}

\* Handle: self.sender.send(ev).await on the bounded command channel.
OrderSubmit(ev) ==
    /\ Len(ord.submitted) < MaxSubmitted
    /\ Len(chan) < MaxQueue
    /\ chan' = Append(chan, ev)
    /\ ord' = [ord EXCEPT !.submitted = Append(@, ev)]
    /\ last' = NoStep
    /\ UNCHANGED <<beh, hyper, conns, netVars, lastSet, scen>>

\* The select! arm of the swarm task on protocol_rx: the command received
\* goes through map_protocol_ev to push_event.
OrderReceive ==
    /\ chan # <<>>
    /\ beh' = [beh EXCEPT ![OrderNode] = push_event(@, Head(chan))]
    /\ chan' = Tail(chan)
    /\ last' = NoStep
    /\ UNCHANGED <<hyper, conns, netVars, lastSet, scen, ord>>

\* The swarm polls the behaviour of n; a NotifyHandler it returns reaches
\* the handler when the connection has one.
OrderPoll(n) ==
    /\ Poll(n)
    /\ LET res == Behaviour_poll(beh[n]) IN
        ord' = IF n = OrderNode
               THEN [ord EXCEPT
                       !.processed = @ \o res.processed,
                       !.handed =
                           IF /\ res.kind = "NotifyHandler"
                              /\ res.peer = OrderPeer
                              /\ hand[n][OrderPeer].state # "Dropped"
                           THEN Append(@, res.hev) ELSE @]
               ELSE ord
    /\ UNCHANGED chan

\* The connection task polls a handler.
OrderHandlerPoll(n, p) ==
    /\ HandlerPoll(n, p)
    /\ ord' = IF n = OrderNode /\ p = OrderPeer
              THEN [ord EXCEPT
                      !.written = @ \o Handler_poll(hand[n][p], wire[p][n]).sent]
              ELSE IF /\ n = OrderPeer /\ p = OrderNode
                      /\ Handler_poll(hand[n][p], wire[p][n]).kind = "NotifyBehaviour"
                      /\ Handler_poll(hand[n][p], wire[p][n]).ev.type
                            \in {"IncomingQuery", "IncomingAdvertiseReq"}
              THEN [ord EXCEPT
                      !.delivered =
                          Append(@, Handler_poll(hand[n][p], wire[p][n]).ev)]
              ELSE ord
    /\ UNCHANGED chan

NextOrder ==
    \/ \E ev \in OrderCommands : OrderSubmit(ev) /\ UNCHANGED taskVars
          /\ UNCHANGED <<blob, msg, xfer, fs, corr, subs, hd>>
    \/ OrderReceive /\ UNCHANGED taskVars
          /\ UNCHANGED <<blob, msg, xfer, fs, corr, subs, hd>>
    \/ NetConnectionEstablished(OrderNode, OrderPeer) /\ UNCHANGED auxVars
    \/ \E n \in Nodes : \E p \in NetPeers(n) \cap Nodes :
          Negotiate(n, p) /\ UNCHANGED auxVars
    \/ \E n \in Nodes : \E p \in NetPeers(n) \cap Nodes :
          DialUpgradeError(n, p, "Timeout") /\ UNCHANGED auxVars
    \/ \E n \in Nodes : \E p \in NetPeers(n) \cap Nodes :
          OrderHandlerPoll(n, p) /\ UNCHANGED taskVars
          /\ UNCHANGED <<blob, msg, xfer, fs, corr, subs, hd>>
    \/ \E n \in Nodes : OrderPoll(n) /\ UNCHANGED taskVars
          /\ UNCHANGED <<blob, msg, xfer, fs, corr, subs, hd>>

SpecOrder == Init /\ [][NextOrder]_vars

(***************************************************************************)
(* SpecTask: the swarm task of one node and the calls on its handles       *)
(***************************************************************************)
\* A call slot that can take a new call: unused, returned, or given up with
\* nothing of it left in the channels.
CallFree(call) ==
    \/ call.st \in {"-", "returned", "panicked"}
    \/ call.st = "dropped" /\ (call.replies = 1 \/ call.timer)

\* A handle method is called: the command goes to the channel of the swarm
\* (swarm operations) or of the protocol.
TaskCall(c, op) ==
    /\ CallFree(calls[c])
    /\ IF op \in SwarmOps
       THEN /\ Len(swarm_rx) < buffer_size
            /\ swarm_rx' = Append(swarm_rx, [op |-> op, call |-> c])
            /\ calls' = [calls EXCEPT ![c] = generated_call(op)]
            /\ UNCHANGED chan
       ELSE /\ Len(chan) < buffer_size
            /\ Len(chan) + Load(OrderNode) < MaxQueue
            /\ UNCHANGED swarm_rx
            /\ IF op \in CallbackOps
               THEN /\ chan' = Append(chan, InEvent(op, NoPeer, FALSE, c))
                    /\ calls' = [calls EXCEPT ![c] = generated_call(op)]
               ELSE /\ chan' = Append(chan, InEvent("QueryAdvertisedPeer",
                                                    OrderPeer, FALSE, 0))
                    /\ calls' = [calls EXCEPT ![c] = query_advertised_peer_call]
    /\ last' = NoStep
    /\ UNCHANGED <<beh, hyper, conns, netVars, lastSet, scen, ord, sw, task, evq>>

\* The caller drops the future of call c; its subscription goes with it.
TaskAbandon(c) ==
    /\ calls[c].st = "waiting"
    /\ calls' = [calls EXCEPT ![c] = [@ EXCEPT !.st = "dropped", !.sub = <<>>,
                                               !.lagged = FALSE]]
    /\ last' = NoStep
    /\ UNCHANGED <<beh, hyper, conns, netVars, lastSet, scen, chan, ord,
                   swarm_rx, sw, task, evq>>

\* The timeout of call c runs out.
TaskTimeout(c) ==
    /\ calls[c].st = "waiting"
    /\ calls[c].timer
    /\ calls' = [calls EXCEPT ![c] =
                    [@ EXCEPT !.st = "returned", !.sub = <<>>, !.lagged = FALSE,
                              !.result = OpResult("Timeout", FALSE, FALSE, {})]]
    /\ last' = NoStep
    /\ UNCHANGED <<beh, hyper, conns, netVars, lastSet, scen, chan, ord,
                   swarm_rx, sw, task, evq>>

\* select! arm on swarm_rx: swarm_op_exec.
TaskSwarmOp(outcome) ==
    /\ task.pc = "select"
    /\ swarm_rx # <<>>
    /\ outcome \/ Head(swarm_rx).op \in {"Dial", "Listen"}
    /\ LET cmd == Head(swarm_rx)
           r == swarm_op_exec(sw, conns[OrderNode][OrderPeer] >= 1, cmd.op,
                              outcome)
           cb == IF r.replied THEN handle_callback(calls[cmd.call], r.result)
                 ELSE [call |-> calls[cmd.call], panic |-> FALSE]
       IN  /\ swarm_rx' = Tail(swarm_rx)
           /\ sw' = r.sw
           /\ calls' = [calls EXCEPT ![cmd.call] = [cb.call EXCEPT !.out = r.result]]
           /\ task' = IF cb.panic THEN [task EXCEPT !.pc = "panicked"] ELSE task
    /\ last' = NoStep
    /\ UNCHANGED <<beh, hyper, conns, netVars, lastSet, scen, chan, ord, evq>>

\* select! arm on protocol_rx.
TaskReceive ==
    /\ task.pc = "select"
    /\ OrderReceive
    /\ UNCHANGED taskVars

\* A command of poll_in_events that carries a callback.
IsCallbackCommand(ev) == ev.type \in CallbackOps

\* select! arm on the swarm, which polls the behaviour: the callbacks its
\* poll resolved reach their calls and an event it generated goes through
\* handle_swarm_event to ev_tx.
TaskPoll ==
    /\ task.pc = "select"
    /\ Poll(OrderNode)
    /\ LET res == Behaviour_poll(beh[OrderNode])
           cmds == SelectSeq(res.processed, IsCallbackCommand)
           cb(i) == handle_callback(calls[cmds[i].id],
                                    OpResult(cmds[i].type, TRUE, FALSE,
                                             res.callbacks[i].list))
           sent == IF res.kind = "GenerateEvent"
                   THEN ev_tx_send(task, evq, res.oev)
                   ELSE [task |-> task, evq |-> evq]
       IN  /\ calls' = [c \in 1..MaxCalls |->
                          IF \E i \in 1..Len(cmds) : cmds[i].id = c
                          THEN LET i == CHOOSE i \in 1..Len(cmds) : cmds[i].id = c
                               IN  [cb(i).call EXCEPT !.out = cb(i).call.result]
                          ELSE calls[c]]
           /\ task' = IF \E i \in 1..Len(cmds) : cb(i).panic
                      THEN [task EXCEPT !.pc = "panicked"] ELSE sent.task
           /\ evq' = sent.evq
    /\ UNCHANGED <<chan, ord, swarm_rx, sw>>

\* select! arm on the swarm: a connection is established, one this node
\* dialed or one the peer made.
TaskConnectionEstablished(dialed) ==
    /\ task.pc = "select"
    /\ dialed => sw.dialing
    /\ SwarmConnectionEstablished(OrderNode, OrderPeer)
    /\ sw' = IF dialed THEN [sw EXCEPT !.dialing = FALSE] ELSE sw
    /\ LET sent == ev_tx_send(task, evq,
                              SwarmEvent("ConnectionEstablished", OrderPeer))
       IN  task' = sent.task /\ evq' = sent.evq
    /\ UNCHANGED <<chan, ord, swarm_rx, calls>>

\* select! arm on the swarm: a connection is closed, one this node asked to
\* close or one the peer closed.
TaskConnectionClosed(asked) ==
    /\ task.pc = "select"
    /\ asked => sw.closing
    /\ SwarmConnectionClosed(OrderNode, OrderPeer)
    /\ sw' = IF asked
             THEN [sw EXCEPT !.closing = conns[OrderNode][OrderPeer] - 1 >= 1]
             ELSE sw
    /\ LET sent == ev_tx_send(task, evq,
                              SwarmEvent("ConnectionClosed", OrderPeer))
       IN  task' = sent.task /\ evq' = sent.evq
    /\ UNCHANGED <<chan, ord, swarm_rx, calls>>

\* ev_tx.send(..).await completes once the channel has room.
TaskSendCompletes ==
    /\ task.pc = "sending"
    /\ Len(evq) < buffer_size
    /\ evq' = Append(evq, task.held)
    /\ task' = NoTask
    /\ last' = NoStep
    /\ UNCHANGED <<beh, hyper, conns, netVars, lastSet, scen, chan, ord,
                   swarm_rx, sw, calls>>

\* The receiver of the event channel takes an event and passes it on to
\* the subscriptions of the waiting calls.
TaskDispatch ==
    /\ evq # <<>>
    /\ evq' = Tail(evq)
    /\ calls' = [c \in 1..MaxCalls |->
                   IF calls[c].st = "waiting" /\ calls[c].timer
                   THEN broadcast_send(calls[c], Head(evq)) ELSE calls[c]]
    /\ last' = NoStep
    /\ UNCHANGED <<beh, hyper, conns, netVars, lastSet, scen, chan, ord,
                   swarm_rx, sw, task>>

\* The future of call c runs one turn of its listen_event! loop.
TaskListen(c) ==
    /\ calls[c].st = "waiting"
    /\ calls[c].lagged \/ calls[c].sub # <<>>
    /\ calls' = [calls EXCEPT ![c] = listen_event_recv(@, OrderPeer)]
    /\ last' = NoStep
    /\ UNCHANGED <<beh, hyper, conns, netVars, lastSet, scen, chan, ord,
                   swarm_rx, sw, task, evq>>

\* SpecTask: the SwarmHandle makes call 1, the advertise handle the others,
\* which are callback methods.
NextTask ==
    \/ \E op \in SwarmOps : TaskCall(1, op)
          /\ UNCHANGED <<blob, msg, xfer, fs, corr, subs, hd>>
    \/ \E c \in 2..MaxCalls : \E op \in CallbackOps : TaskCall(c, op)
          /\ UNCHANGED <<blob, msg, xfer, fs, corr, subs, hd>>
    \/ \E c \in 1..MaxCalls : TaskAbandon(c)
          /\ UNCHANGED <<blob, msg, xfer, fs, corr, subs, hd>>
    \/ \E outcome \in BOOLEAN : TaskSwarmOp(outcome)
          /\ UNCHANGED <<blob, msg, xfer, fs, corr, subs, hd>>
    \/ TaskReceive
          /\ UNCHANGED <<blob, msg, xfer, fs, corr, subs, hd>>
    \/ TaskPoll
          /\ UNCHANGED <<blob, msg, xfer, fs, corr, subs, hd>>
    \/ TaskConnectionEstablished(TRUE)
          /\ UNCHANGED <<blob, msg, xfer, fs, corr, subs, hd>>
    \/ TaskConnectionClosed(TRUE)
          /\ UNCHANGED <<blob, msg, xfer, fs, corr, subs, hd>>
    \/ TaskSendCompletes
          /\ UNCHANGED <<blob, msg, xfer, fs, corr, subs, hd>>
    \/ TaskDispatch
          /\ UNCHANGED <<blob, msg, xfer, fs, corr, subs, hd>>

SpecTask == Init /\ [][NextTask]_vars

\* SpecEvents: the advertise handle queries, in the last call slot, while
\* peers connect and leave.
NextEvents ==
    \/ TaskCall(MaxCalls, "QueryAdvertisedPeer")
          /\ UNCHANGED <<blob, msg, xfer, fs, corr, subs, hd>>
    \/ TaskAbandon(MaxCalls)
          /\ UNCHANGED <<blob, msg, xfer, fs, corr, subs, hd>>
    \/ TaskTimeout(MaxCalls)
          /\ UNCHANGED <<blob, msg, xfer, fs, corr, subs, hd>>
    \/ TaskReceive
          /\ UNCHANGED <<blob, msg, xfer, fs, corr, subs, hd>>
    \/ TaskPoll
          /\ UNCHANGED <<blob, msg, xfer, fs, corr, subs, hd>>
    \/ TaskConnectionEstablished(FALSE)
          /\ UNCHANGED <<blob, msg, xfer, fs, corr, subs, hd>>
    \/ TaskConnectionClosed(FALSE)
          /\ UNCHANGED <<blob, msg, xfer, fs, corr, subs, hd>>
    \/ TaskSendCompletes
          /\ UNCHANGED <<blob, msg, xfer, fs, corr, subs, hd>>
    \/ TaskDispatch
          /\ UNCHANGED <<blob, msg, xfer, fs, corr, subs, hd>>
    \/ TaskListen(MaxCalls)
          /\ UNCHANGED <<blob, msg, xfer, fs, corr, subs, hd>>

SpecEvents == Init /\ [][NextEvents]_vars

(***************************************************************************)
(* SpecBlob: send ids of one handle and recv ids of one receiver           *)
(***************************************************************************)
\* send_file up to `let send_id = self.next_id()`: the path checks passed.
BlobNextId(k) ==
    /\ blob.callers[k].pc = "idle"
    /\ blob.send_counter < MaxSends
    /\ LET r == next_id(blob.send_counter)
       IN  blob' = [blob EXCEPT
                       !.send_counter = r.counter,
                       !.assigned = Append(@, r.id),
                       !.callers[k] = [pc |-> "holding", id |-> r.id]]

\* send_file: self.sender.send(ev).await, then the caller awaits the reply.
BlobSubmit(k) ==
    /\ blob.callers[k].pc = "holding"
    /\ Len(blob.chan) < MaxQueue
    /\ blob' = [blob EXCEPT
                   !.chan = Append(@, SendFile(blob.callers[k].id, BlobReceiver)),
                   !.callers[k].pc = "waiting"]

\* send_file: with_timeout!(rx, 10) fires before the reply.
BlobTimeout(k) ==
    /\ blob.callers[k].pc = "waiting"
    /\ blob' = [blob EXCEPT !.callers[k].pc = "idle"]

\* cancel_send(local_send_id) on the handle.
BlobCancelSend(send_id) ==
    /\ send_id < blob.send_counter
    /\ Len(blob.chan) < MaxQueue
    /\ \A i \in 1..Len(blob.chan) : blob.chan[i] # CancelSend(send_id)
    /\ blob' = [blob EXCEPT !.chan = Append(@, CancelSend(send_id))]

\* The swarm task hands the next command to the sending behaviour.
BlobCommand ==
    /\ blob.chan # <<>>
    /\ Len(blob.wire) < MaxQueue
    /\ blob' = blob_on_command([blob EXCEPT !.chan = Tail(@)], Head(blob.chan))

\* The receiver gets the sender's next packet.
BlobDeliver ==
    /\ blob.wire # <<>>
    /\ LET pkt == Head(blob.wire)
           b == [blob EXCEPT !.wire = Tail(@)]
       IN  blob' = IF pkt.type = "SendRequest"
                   THEN on_send_request(b, BlobSender, pkt.send_id)
                   ELSE on_cancel(b, BlobSender, pkt.send_id)

\* A request of another peer reaches the receiver.
BlobStrangerRequest(send_id) ==
    /\ blob.recv_counter < MaxSends
    /\ blob' = on_send_request(blob, BlobStranger, send_id)

\* cancel_recv(local_recv_id) at the receiver: the record goes and the
\* sender is told.
BlobCancelRecv(recv_id) ==
    /\ Len(blob.back) < MaxNetLoad
    /\ \E i \in 1..Len(blob.pending_recv) : blob.pending_recv[i].recv_id = recv_id
    /\ LET rec == CHOOSE r \in {blob.pending_recv[i] : i \in 1..Len(blob.pending_recv)} :
                      r.recv_id = recv_id
       IN  blob' = [blob EXCEPT
                       !.pending_recv = SelectSeq(@, LAMBDA r : r.recv_id # recv_id),
                       !.back = IF rec.from = BlobSender
                                THEN Append(@, BlobPacket("Cancel", rec.send_id))
                                ELSE @]

\* The sender gets the receiver's cancellation.
BlobDeliverBack ==
    /\ blob.back # <<>>
    /\ blob' = [blob EXCEPT
                   !.back = Tail(@),
                   !.pending_send = SelectSeq(@, LAMBDA r : r.send_id # Head(blob.back).send_id)]

NextBlob ==
    \/ \E k \in 1..MaxCalls : BlobNextId(k) /\ UNCHANGED <<coreVars, chan, ord, taskVars, msg, xfer, fs, corr, subs, hd>>
    \/ \E k \in 1..MaxCalls : BlobSubmit(k) /\ UNCHANGED <<coreVars, chan, ord, taskVars, msg, xfer, fs, corr, subs, hd>>
    \/ \E k \in 1..MaxCalls : BlobTimeout(k) /\ UNCHANGED <<coreVars, chan, ord, taskVars, msg, xfer, fs, corr, subs, hd>>
    \/ \E id \in 0..(MaxSends - 1) : BlobCancelSend(id) /\ UNCHANGED <<coreVars, chan, ord, taskVars, msg, xfer, fs, corr, subs, hd>>
    \/ BlobCommand /\ UNCHANGED <<coreVars, chan, ord, taskVars, msg, xfer, fs, corr, subs, hd>>
    \/ BlobDeliver /\ UNCHANGED <<coreVars, chan, ord, taskVars, msg, xfer, fs, corr, subs, hd>>
    \/ BlobStrangerRequest(0) /\ UNCHANGED <<coreVars, chan, ord, taskVars, msg, xfer, fs, corr, subs, hd>>
    \/ \E id \in 0..(2 * MaxSends - 1) : BlobCancelRecv(id) /\ UNCHANGED <<coreVars, chan, ord, taskVars, msg, xfer, fs, corr, subs, hd>>
    \/ BlobDeliverBack /\ UNCHANGED <<coreVars, chan, ord, taskVars, msg, xfer, fs, corr, subs, hd>>

SpecBlob == Init /\ [][NextBlob]_vars

(***************************************************************************)
(* SpecMsg: messages of one handle on their way to a connected peer        *)
(***************************************************************************)
\* send_message up to self.sender.send(ev): the id is taken, the listener
\* subscribed and the command sent.
MsgCall(k, body) ==
    /\ msg.callers[k].pc = "idle"
    /\ msg.counter < MaxSends
    /\ Len(msg.chan) < MaxQueue
    /\ LET op_id == msg.counter
           m == Message(OrderNode, OrderPeer, op_id, body)
       IN  msg' = [msg EXCEPT
                      !.counter = @ + 1,
                      !.callers[k] = [pc |-> "waiting", id |-> op_id, result |-> "none"],
                      !.sends = Append(@, m),
                      !.returned = Append(@, "none"),
                      !.chan = Append(@, [peer |-> OrderPeer, message |-> m, id |-> op_id])]

\* send_message: with_timeout!(fut, 10) fires before a result is seen.
MsgCallTimeout(k) ==
    /\ msg.callers[k].pc = "waiting"
    /\ msg' = [msg EXCEPT
                  !.callers[k] = [@ EXCEPT !.pc = "idle", !.result = "Timeout"],
                  !.returned[msg.callers[k].id + 1] = "Timeout"]

\* The swarm task hands the command to the behaviour, which passes the
\* message to the handler of the connected peer.
MsgCommand ==
    /\ msg.chan # <<>>
    /\ msg' = [msg EXCEPT
                  !.chan = Tail(@),
                  !.pending_in = Append(@, Head(msg.chan))]

\* The handler with an idle stream starts sending the next message.
MsgHandlerSend ==
    /\ msg.outbound.st = "Idle"
    /\ msg.pending_in # <<>>
    /\ msg' = [msg EXCEPT
                  !.pending_in = Tail(@),
                  !.outbound = [st |-> "Busy", id |-> Head(msg.pending_in).id],
                  !.stream = message_as_bytes(Head(msg.pending_in).message),
                  !.read = FALSE]

\* The peer's handler completes a recv: the bytes are parsed and the
\* message goes to its behaviour.
MsgRecv ==
    /\ msg.stream # <<>>
    /\ msg' = [msg EXCEPT
                  !.stream = <<>>,
                  !.read = TRUE,
                  !.inbound = Append(@, message_from_slice(msg.stream))]

\* The results a SendResult event gives to the calls that listen.
MsgResult(result, id) ==
    LET after == [k \in 1..MaxCalls |-> send_result_listen(msg.callers[k], result, id)]
    IN  [msg EXCEPT
            !.callers = after,
            !.returned = [i \in 1..Len(@) |->
                            IF \E k \in 1..MaxCalls :
                                  /\ msg.callers[k].pc = "waiting"
                                  /\ after[k].pc = "idle"
                                  /\ msg.callers[k].id = i - 1
                            THEN result ELSE @[i]],
            !.outbound = [st |-> "Idle", id |-> 0],
            !.stream = <<>>,
            !.read = FALSE]

\* The send completes after the peer read the message: SendResult(Ok, id).
MsgSendDone ==
    /\ msg.outbound.st = "Busy"
    /\ msg.read
    /\ msg' = MsgResult("Ok", msg.outbound.id)

\* The handler's timer fires on a send the peer did not read:
\* SendResult(Err(Timeout), id), and the stream is given up.
MsgSendTimeout ==
    /\ msg.outbound.st = "Busy"
    /\ ~msg.read
    /\ msg' = MsgResult("Timeout", msg.outbound.id)

\* The peer's behaviour emits IncomingMessage for the next message of its
\* handler.
MsgPoll ==
    /\ msg.inbound # <<>>
    /\ msg' = [msg EXCEPT
                  !.inbound = Tail(@),
                  !.emitted = Append(@, [from |-> OrderNode, msg |-> Head(msg.inbound)])]

MsgEmit == MsgPoll /\ UNCHANGED <<coreVars, chan, ord, taskVars, blob, xfer, fs, corr, subs, hd>>

NextMsg ==
    \/ \E k \in 1..MaxCalls : \E body \in {"x", "y"} :
          MsgCall(k, body) /\ UNCHANGED <<coreVars, chan, ord, taskVars, blob, xfer, fs, corr, subs, hd>>
    \/ \E k \in 1..MaxCalls :
          MsgCallTimeout(k) /\ UNCHANGED <<coreVars, chan, ord, taskVars, blob, xfer, fs, corr, subs, hd>>
    \/ MsgCommand /\ UNCHANGED <<coreVars, chan, ord, taskVars, blob, xfer, fs, corr, subs, hd>>
    \/ MsgHandlerSend /\ UNCHANGED <<coreVars, chan, ord, taskVars, blob, xfer, fs, corr, subs, hd>>
    \/ MsgRecv /\ UNCHANGED <<coreVars, chan, ord, taskVars, blob, xfer, fs, corr, subs, hd>>
    \/ MsgSendDone /\ UNCHANGED <<coreVars, chan, ord, taskVars, blob, xfer, fs, corr, subs, hd>>
    \/ MsgSendTimeout /\ UNCHANGED <<coreVars, chan, ord, taskVars, blob, xfer, fs, corr, subs, hd>>
    \/ MsgEmit

\* The swarm polls a behaviour that has an event queued.
SpecMsg == Init /\ [][NextMsg]_vars /\ WF_vars(MsgEmit)

(***************************************************************************)
(* SpecXfer: transfers from one node to another, accepted, streamed and    *)
(* cancelled                                                               *)
(***************************************************************************)
\* The sending behaviour takes a SendFile command.
XfSend ==
    /\ xfer.next_send < MaxXfers
    /\ xfer' = [xfer EXCEPT
                   !.sends = Append(@, [send_id |-> xfer.next_send, started |-> FALSE,
                                        sent |-> 0, acked |-> 0]),
                   !.next_send = @ + 1,
                   !.ab = Append(@, XfPacket("SendRequest", xfer.next_send, 0, 0)),
                   !.last = XfLast("send", xfer.next_send, TRUE, FALSE)]

\* The receiving behaviour takes an AcceptFile command for a pending record.
XfAccept(recv_id) ==
    /\ HasRecvId(xfer, recv_id)
    /\ ~RecvById(xfer, recv_id).accepted
    /\ xfer' = [xfer EXCEPT
                   !.recvs = [i \in 1..Len(@) |->
                                IF @[i].recv_id = recv_id
                                THEN [@[i] EXCEPT !.accepted = TRUE] ELSE @[i]],
                   !.ba = Append(@, XfPacket("Accept", RecvById(xfer, recv_id).send_id, 0, 0)),
                   !.last = XfLast("accept", recv_id, TRUE, TRUE)]

XfCancelSend(send_id) == xfer' = cancel_send(xfer, send_id)

XfCancelRecv(recv_id) == xfer' = cancel_recv(xfer, recv_id)

\* The sender's outbound state machine takes the next chunk of a transfer.
XfChunk(send_id) ==
    /\ HasSend(xfer, send_id)
    /\ chunk_ready(SendOf(xfer, send_id))
    /\ LET rec == SendOf(xfer, send_id)
       IN  xfer' = [xfer EXCEPT
                       !.sends = [i \in 1..Len(@) |->
                                    IF @[i].send_id = send_id
                                    THEN [@[i] EXCEPT !.sent = @ + 1] ELSE @[i]],
                       !.ab = Append(@, XfPacket("Chunk", send_id, rec.sent,
                                                 read_chunk(send_id, rec.sent))),
                       !.late = @ \/ send_id \in xfer.cancelled_send,
                       !.last = XfLast("chunk", send_id, FALSE, TRUE)]

\* The receiver gets the next packet of the sender.
XfDeliverAB ==
    /\ xfer.ab # <<>>
    /\ xfer' = on_packet_receiver([xfer EXCEPT !.ab = Tail(@)], Head(xfer.ab))

\* The sender gets the next packet of the receiver.
XfDeliverBA ==
    /\ xfer.ba # <<>>
    /\ xfer' = on_packet_sender([xfer EXCEPT !.ba = Tail(@)], Head(xfer.ba))

NextXfer ==
    \/ XfSend /\ UNCHANGED <<coreVars, chan, ord, taskVars, blob, msg, fs, corr, subs, hd>>
    \/ \E id \in 0..(MaxXfers - 1) :
          XfAccept(id) /\ UNCHANGED <<coreVars, chan, ord, taskVars, blob, msg, fs, corr, subs, hd>>
    \/ \E id \in 0..(MaxXfers - 1) :
          XfCancelSend(id) /\ UNCHANGED <<coreVars, chan, ord, taskVars, blob, msg, fs, corr, subs, hd>>
    \/ \E id \in 0..(MaxXfers - 1) :
          XfCancelRecv(id) /\ UNCHANGED <<coreVars, chan, ord, taskVars, blob, msg, fs, corr, subs, hd>>
    \/ \E id \in 0..(MaxXfers - 1) :
          XfChunk(id) /\ UNCHANGED <<coreVars, chan, ord, taskVars, blob, msg, fs, corr, subs, hd>>
    \/ XfDeliverAB /\ UNCHANGED <<coreVars, chan, ord, taskVars, blob, msg, fs, corr, subs, hd>>
    \/ XfDeliverBA /\ UNCHANGED <<coreVars, chan, ord, taskVars, blob, msg, fs, corr, subs, hd>>

SpecXfer == Init /\ [][NextXfer]_vars

(***************************************************************************)
(* SpecFs: recv_file of both handles on one receiver's filesystem          *)
(***************************************************************************)
\* What the receiver's disk holds before the first call: each path names
\* nothing, a file or a directory, and a directory may hold the file.
FsSetup(kinds, inner) ==
    /\ ~fs.ready
    /\ fs' = [fs EXCEPT
                !.ready = TRUE,
                !.files = [p \in AllPaths |->
                             IF p \in FsPaths
                             THEN CASE kinds[p] = "file" -> FsFile(<<1, 2>>)
                                    [] kinds[p] = "dir" -> FsDir
                                    [] OTHER -> Absent
                             ELSE IF kinds[<<p[1]>>] = "dir" /\ inner[<<p[1]>>]
                                  THEN FsFile(<<3>>) ELSE Absent]]

FsRecvFile(recv_id, path) ==
    /\ fs.ready
    /\ Len(fs.chan) < MaxQueue
    /\ fs' = recv_file(fs, recv_id, path)

FsRecvFileTransfer(recv_id, path) ==
    /\ fs.ready
    /\ Len(fs.chan) < MaxQueue
    /\ fs' = blob_transfer_recv_file(fs, recv_id, path)

FsAcceptFile ==
    /\ fs.chan # <<>>
    /\ fs' = on_accept_file([fs EXCEPT !.chan = Tail(@)], Head(fs.chan))

\* A chunk of an accepted transfer arrives and is written at its offset.
FsWrite(recv_id) ==
    /\ fs.recvs[recv_id].accepted
    /\ fs.recvs[recv_id].written < FileChunks
    /\ LET rec == fs.recvs[recv_id]
       IN  fs' = [fs EXCEPT
                    !.files[rec.dest].data =
                        write_at(@, rec.written, read_chunk(recv_id, rec.written)),
                    !.recvs[recv_id].written = @ + 1,
                    !.last = FsLast("write", recv_id, rec.dest, "Ok")]

NextFs ==
    \/ \E kinds \in [FsPaths -> {"absent", "file", "dir"}] :
       \E inner \in [FsPaths -> BOOLEAN] :
          FsSetup(kinds, inner) /\ UNCHANGED <<coreVars, chan, ord, taskVars, blob, msg, xfer, corr, subs, hd>>
    \/ \E id \in 0..(MaxXfers - 1) : \E path \in FsPaths :
          FsRecvFile(id, path) /\ UNCHANGED <<coreVars, chan, ord, taskVars, blob, msg, xfer, corr, subs, hd>>
    \/ \E id \in 0..(MaxXfers - 1) : \E path \in FsPaths :
          FsRecvFileTransfer(id, path) /\ UNCHANGED <<coreVars, chan, ord, taskVars, blob, msg, xfer, corr, subs, hd>>
    \/ FsAcceptFile /\ UNCHANGED <<coreVars, chan, ord, taskVars, blob, msg, xfer, corr, subs, hd>>
    \/ \E id \in 0..(MaxXfers - 1) :
          FsWrite(id) /\ UNCHANGED <<coreVars, chan, ord, taskVars, blob, msg, xfer, corr, subs, hd>>

SpecFs == Init /\ [][NextFs]_vars

(***************************************************************************)
(* SpecCorr: send_message calls of one handle and their result events      *)
(***************************************************************************)
\* The node is built with one of the two messaging modules.
CorrSetup(version) ==
    /\ corr.version = "none"
    /\ corr' = [corr EXCEPT !.version = version, !.counter = first_id(version)]

\* The swarm connects to a peer, or loses it.
CorrConnect(p) ==
    /\ corr.version # "none"
    /\ corr' = [corr EXCEPT
                  !.connected = IF p \in @ THEN @ \ {p} ELSE @ \cup {p},
                  !.handler[p] = IF p \in corr.connected THEN <<>> ELSE @]

\* send_message up to the await of the result: the id is taken, the
\* listener subscribed and the command sent.
CorrCall(k, p) ==
    /\ corr.version # "none"
    /\ corr.callers[k].pc = "idle"
    /\ corr.counter < first_id(corr.version) + MaxSends
    /\ Len(corr.chan) < MaxQueue
    /\ LET op_id == corr.counter
       IN  corr' = [corr EXCEPT
                      !.counter = @ + 1,
                      !.callers[k] = [CorrIdle EXCEPT !.pc = "waiting", !.id = op_id,
                                                      !.peer = p],
                      !.chan = Append(@, [id |-> op_id, peer |-> p])]

\* with_timeout!(fut, 10) fires before a matching event is seen.
CorrCallTimeout(k) ==
    /\ corr.callers[k].pc = "waiting"
    /\ corr' = [corr EXCEPT !.callers[k] =
                  [@ EXCEPT !.pc = "idle", !.result = "Timeout",
                            !.by = corr.callers[k].id]]

\* The behaviour takes SendMessage: to a connected peer it goes to the
\* handler, for any other peer PeerNotFound is emitted.
CorrCommand ==
    /\ corr.chan # <<>>
    /\ Len(corr.events) < MaxQueue
    /\ LET cmd == Head(corr.chan)
       IN  IF cmd.peer \in corr.connected
           THEN corr' = [corr EXCEPT !.chan = Tail(@),
                                     !.handler[cmd.peer] = Append(@, cmd.id)]
           ELSE corr' = [corr EXCEPT
                           !.chan = Tail(@),
                           !.events = Append(@, result_event(corr.version,
                                                  "PeerNotFound", cmd.id, cmd.peer))]

\* The handler of a peer finishes its oldest send, well or with an error.
CorrHandlerResult(p, result) ==
    /\ corr.handler[p] # <<>>
    /\ Len(corr.events) < MaxQueue
    /\ corr' = [corr EXCEPT
                  !.handler[p] = Tail(@),
                  !.events = Append(@, result_event(corr.version, result,
                                                    Head(corr.handler[p]), p))]

\* The oldest event is broadcast to every call that listens.
CorrBroadcast ==
    /\ corr.events # <<>>
    /\ corr' = [corr EXCEPT
                  !.events = Tail(@),
                  !.callers = [k \in 1..MaxCalls |->
                                 listen(corr.version, @[k], Head(corr.events))]]

NextCorr ==
    \/ \E v \in {"messaging.rs", "messaging/mod.rs"} :
          CorrSetup(v) /\ UNCHANGED <<coreVars, chan, ord, taskVars, blob, msg, xfer, fs, subs, hd>>
    \/ \E p \in CorrPeers :
          CorrConnect(p) /\ UNCHANGED <<coreVars, chan, ord, taskVars, blob, msg, xfer, fs, subs, hd>>
    \/ \E k \in 1..MaxCalls : \E p \in CorrPeers :
          CorrCall(k, p) /\ UNCHANGED <<coreVars, chan, ord, taskVars, blob, msg, xfer, fs, subs, hd>>
    \/ \E k \in 1..MaxCalls :
          CorrCallTimeout(k) /\ UNCHANGED <<coreVars, chan, ord, taskVars, blob, msg, xfer, fs, subs, hd>>
    \/ CorrCommand /\ UNCHANGED <<coreVars, chan, ord, taskVars, blob, msg, xfer, fs, subs, hd>>
    \/ \E p \in CorrPeers : \E r \in {"Ok", "Timeout"} :
          CorrHandlerResult(p, r) /\ UNCHANGED <<coreVars, chan, ord, taskVars, blob, msg, xfer, fs, subs, hd>>
    \/ CorrBroadcast /\ UNCHANGED <<coreVars, chan, ord, taskVars, blob, msg, xfer, fs, subs, hd>>

SpecCorr == Init /\ [][NextCorr]_vars

(***************************************************************************)
(* SpecSub: calls that wait for a broadcast event, and the swarm task      *)
(***************************************************************************)
\* A method is called on a clone of its handle.
SubCall(k, method) ==
    /\ subs.callers[k].st = "idle"
    /\ subs.counter < MaxSends
    /\ subs' = [subs EXCEPT
                  !.counter = @ + 1,
                  !.callers[k] = [SubIdle EXCEPT !.method = method, !.st = "calling",
                                                 !.id = subs.counter]]

\* The call takes its next step: swarm_event_source.subscribe(), or
\* self.sender.send(ev).
SubStep(k) ==
    /\ subs.callers[k].st = "calling"
    /\ LET c == subs.callers[k]
           step == call_steps(c.method)[c.at + 1]
           c1 == [c EXCEPT !.at = @ + 1,
                           !.st = IF c.at + 1 = 2 THEN "waiting" ELSE @]
       IN  IF step = "subscribe"
           THEN subs' = [subs EXCEPT !.callers[k] = [c1 EXCEPT !.subscribed = TRUE]]
           ELSE /\ Len(subs.chan) < MaxQueue
                /\ subs' = [subs EXCEPT
                              !.callers[k] = [c1 EXCEPT !.sent = TRUE],
                              !.chan = Append(@, [call |-> k, method |-> c.method,
                                                  id |-> c.id])]

\* The swarm task takes a command and the swarm produces the event for it.
SubCommand ==
    /\ subs.chan # <<>>
    /\ Len(subs.evq) < MaxQueue
    /\ subs' = [subs EXCEPT
                  !.chan = Tail(@),
                  !.evq = Append(@, event_for(Head(subs.chan), subs.is_providing))]

\* The provider state of the relay changes while a query is on its way.
SubProviderState ==
    /\ subs.chan # <<>>
    /\ Head(subs.chan).method = "query_advertised_peer"
    /\ subs' = [subs EXCEPT !.is_providing = ~@]

\* The swarm produces an event that answers no call.
SubOtherEvent ==
    /\ subs.counter > 0
    /\ Len(subs.evq) < MaxNetLoad
    /\ subs' = [subs EXCEPT
                  !.evq = Append(@, [origin |-> -1,
                                     ev |-> SwarmEvent("ConnectionEstablished",
                                                       SubRelay)])]

\* The oldest event is broadcast: every subscription that exists gets it.
SubBroadcast ==
    /\ subs.evq # <<>>
    /\ LET item == Head(subs.evq)
       IN  subs' = [subs EXCEPT
              !.evq = Tail(@),
              !.callers = [k \in 1..MaxCalls |->
                 LET c == @[k]
                     own == item.origin = c.id /\ c.st \in {"calling", "waiting"}
                 IN  IF c.subscribed /\ c.st \in {"calling", "waiting"}
                     THEN [c EXCEPT
                             !.buf = IF Len(@) < event_capacity
                                     THEN Append(@, item) ELSE Append(Tail(@), item),
                             !.lagged = @ \/ Len(c.buf) >= event_capacity,
                             !.heard = @ \/ own]
                     ELSE [c EXCEPT !.missed = @ \/ own]]]

\* The future of a waiting call runs one turn of its listening loop.
SubListen(k) ==
    /\ subs.callers[k].st = "waiting"
    /\ subs.callers[k].buf # <<>>
    /\ LET c == subs.callers[k]
           item == Head(c.buf)
       IN  subs' = [subs EXCEPT !.callers[k] =
                      IF c.lagged
                      THEN [c EXCEPT !.st = "panicked", !.buf = <<>>]
                      ELSE IF answers_call(k, c, item)
                      THEN [c EXCEPT !.st = "returned", !.buf = <<>>,
                                     !.by = item.origin]
                      ELSE [c EXCEPT !.buf = Tail(@)]]

\* The timeout of a waiting call runs out, or its result is taken.
SubEnd(k) ==
    /\ subs.callers[k].st \in {"waiting", "returned"}
    /\ subs' = [subs EXCEPT !.callers[k] = SubIdle]

NextSub ==
    \/ \E k \in 1..MaxCalls : \E m \in EventMethods :
          SubCall(k, m) /\ UNCHANGED <<coreVars, chan, ord, taskVars, blob, msg, xfer, fs, corr, hd>>
    \/ \E k \in 1..MaxCalls :
          SubStep(k) /\ UNCHANGED <<coreVars, chan, ord, taskVars, blob, msg, xfer, fs, corr, hd>>
    \/ SubCommand /\ UNCHANGED <<coreVars, chan, ord, taskVars, blob, msg, xfer, fs, corr, hd>>
    \/ SubProviderState /\ UNCHANGED <<coreVars, chan, ord, taskVars, blob, msg, xfer, fs, corr, hd>>
    \/ SubOtherEvent /\ UNCHANGED <<coreVars, chan, ord, taskVars, blob, msg, xfer, fs, corr, hd>>
    \/ SubBroadcast /\ UNCHANGED <<coreVars, chan, ord, taskVars, blob, msg, xfer, fs, corr, hd>>
    \/ \E k \in 1..MaxCalls :
          SubListen(k) /\ UNCHANGED <<coreVars, chan, ord, taskVars, blob, msg, xfer, fs, corr, hd>>
    \/ \E k \in 1..MaxCalls :
          SubEnd(k) /\ UNCHANGED <<coreVars, chan, ord, taskVars, blob, msg, xfer, fs, corr, hd>>

SpecSub == Init /\ [][NextSub]_vars

(***************************************************************************)
(* SpecHandler: one connection handler, its substreams and their failures  *)
(***************************************************************************)
\* into_handler of the behaviour of one of the two versions.
HdSetup(version) ==
    /\ hd.version = "-"
    /\ hd' = [hd EXCEPT !.version = version,
                        !.last = HdLast("new", "Pending", "Pending", FALSE, "-", NoToBehaviour)]

\* on_behaviour_event.
HdCommand(ev) ==
    /\ hd.version # "-"
    /\ ev \in HdCommands(hd.version)
    /\ Len(hd.submitted) < MaxCalls
    /\ hd' = [hd EXCEPT !.h = on_behaviour_event(hd.h, ev),
                        !.submitted = Append(@, ev),
                        !.last = HdLast("command", "Pending", "Pending", FALSE,
                                        "-", NoToBehaviour)]

\* ConnectionEvent::FullyNegotiatedInbound: the remote opened a stream; what
\* was unread on an earlier one is gone.
HdNegotiatedInbound ==
    /\ hd.version # "-"
    /\ hd.h.inbound = "None"
    /\ Len(hd.h.pending_out_events) < MaxQueue
    /\ hd' = [hd EXCEPT !.h = fully_negotiated_inbound(hd.h),
                        !.rx = <<>>,
                        !.last = HdLast("inbound", "Pending", "Pending", FALSE,
                                        "-", NoToBehaviour)]

\* ConnectionEvent::FullyNegotiatedOutbound, the answer to a request.
HdNegotiatedOutbound ==
    /\ hd.requests > 0
    /\ Len(hd.h.pending_out_events) < MaxQueue
    /\ hd' = [hd EXCEPT !.h = fully_negotiated_outbound(hd.h),
                        !.requests = @ - 1,
                        !.last = HdLast("outbound", "Pending", "Pending", FALSE,
                                        "-", NoToBehaviour)]

\* ConnectionEvent::DialUpgradeError, the answer to a request.
HdDialUpgradeError(error) ==
    /\ hd.requests > 0
    /\ hd' = [hd EXCEPT !.h = on_dial_upgrade_error(hd.h, error),
                        !.requests = @ - 1,
                        !.last = HdLast("dial_error", "Pending", "Pending", FALSE,
                                        error, NoToBehaviour)]

\* The remote writes a frame on the inbound stream.
HdFrame(bytes) ==
    /\ hd.h.inbound = "Recv"
    /\ Len(hd.frames) + Len(hd.rx) < MaxCalls
    /\ hd' = [hd EXCEPT !.rx = Append(@, bytes),
                        !.last = HdLast("frame", "Pending", "Pending", FALSE, "-", NoToBehaviour)]

\* Handler::poll with what its futures return: recv of the armed recv, send
\* and timer of a send in flight.
HdPoll(recv, send, timer) ==
    /\ hd.version # "-"
    /\ recv = "Ok" => hd.h.inbound = "Recv" /\ hd.rx # <<>>
    /\ recv = "Err" => hd.h.inbound = "Recv"
    /\ send # "Pending" => hd.h.outbound = "Busy"
    /\ timer => hd.h.outbound = "Busy" /\ send = "Pending"
    /\ ~polls_recv(hd.version, hd.h) => recv = "Pending"
    /\ ~polls_send(hd.version, hd.h, recv) => send = "Pending" /\ ~timer
    /\ Len(hd.h.pending_out_events) >= MaxQueue
          => recv = "Pending" /\ send # "Err" /\ ~timer
    /\ LET r == version_poll(hd.version, hd.h, hd.rx, recv, send, timer)
           took == Len(r.h.pending_in_events) < Len(hd.h.pending_in_events)
           resolved == /\ hd.h.outbound = "Busy"
                       /\ ~(r.h.outbound = "Busy" /\ ~took)
           f1 == IF resolved
                 THEN [hd.fate EXCEPT ![Len(hd.fate)] =
                           IF r.sent # <<>> THEN "sent" ELSE "lost"]
                 ELSE hd.fate
       IN  hd' = [hd EXCEPT
                    !.h = r.h,
                    !.rx = r.rx,
                    !.frames = IF Len(r.rx) < Len(hd.rx)
                               THEN Append(@, Head(hd.rx)) ELSE @,
                    !.delivered = IF r.kind = "NotifyBehaviour" /\ of_frame(r.ev)
                                  THEN Append(@, r.ev) ELSE @,
                    !.fate = IF took
                             THEN Append(f1, IF r.h.outbound = "Busy"
                                             THEN "sending" ELSE "dropped")
                             ELSE f1,
                    !.written = @ \o r.sent,
                    !.requests = IF r.kind = "OutboundSubstreamRequest"
                                 THEN @ + 1 ELSE @,
                    !.last = HdLast("poll", recv, send, timer, r.kind, r.ev)]

NextHandler ==
    \/ \E v \in HandlerVersions :
          HdSetup(v) /\ UNCHANGED <<coreVars, chan, ord, taskVars, blob, msg, xfer, fs, corr, subs>>
    \/ \E ev \in HdCommands("advertise") \cup HdCommands("relay_ext") :
          HdCommand(ev) /\ UNCHANGED <<coreVars, chan, ord, taskVars, blob, msg, xfer, fs, corr, subs>>
    \/ HdNegotiatedInbound /\ UNCHANGED <<coreVars, chan, ord, taskVars, blob, msg, xfer, fs, corr, subs>>
    \/ HdNegotiatedOutbound /\ UNCHANGED <<coreVars, chan, ord, taskVars, blob, msg, xfer, fs, corr, subs>>
    \/ \E error \in {"NegotiationFailed", "Timeout"} :
          HdDialUpgradeError(error) /\ UNCHANGED <<coreVars, chan, ord, taskVars, blob, msg, xfer, fs, corr, subs>>
    \/ \E bytes \in HdFrames :
          HdFrame(bytes) /\ UNCHANGED <<coreVars, chan, ord, taskVars, blob, msg, xfer, fs, corr, subs>>
    \/ \E recv \in {"Pending", "Ok", "Err"} : \E send \in {"Pending", "Ok", "Err"} :
          \E timer \in BOOLEAN :
             HdPoll(recv, send, timer) /\ UNCHANGED <<coreVars, chan, ord, taskVars, blob, msg, xfer, fs, corr, subs>>

SpecHandler == Init /\ [][NextHandler]_vars

(***************************************************************************)
(* Properties                                                              *)
(***************************************************************************)
\* The commands the poll of node n took from in_events in this step.
Consumed(n) ==
    SubSeq(beh[n].in_events, 1,
           Len(beh[n].in_events) - Len(beh'[n].in_events))

\* The command whose branch made this poll of node n return.
Returning(n) == Consumed(n)[Len(Consumed(n))]

\* C1: an AdvertiseSelf(true) from P puts P in advertised_peers and
\* is_advertising(P) holds, an AdvertiseSelf(false) takes P out, and the
\* second of two consecutive equal packets from P changes nothing.
C1_AdvertiseIdempotent ==
    [][last'.op = "IncomingAdvertiseReq" =>
        LET n == last'.node
            p == last'.peer
        IN  /\ last'.flag =>
                 /\ beh'[n].advertised_peers = beh[n].advertised_peers \cup {p}
                 /\ is_advertising(beh'[n], p)
            /\ ~last'.flag =>
                 /\ beh'[n].advertised_peers = beh[n].advertised_peers \ {p}
                 /\ ~is_advertising(beh'[n], p)
            /\ last'.rep =>
                 beh'[n].advertised_peers = beh[n].advertised_peers]_vars

\* A second AdvertiseSelf(true) from P has just been handled, next to the
\* advertisement of another peer.
C1_Witness ==
    /\ last.op = "IncomingAdvertiseReq" /\ last.rep /\ last.flag
    /\ is_advertising(beh[last.node], last.peer)
    /\ beh[last.node].advertised_peers # {last.peer}

\* The poll of ScenNode has just answered a pending query.
Answered ==
    /\ last.op = "poll" /\ last.node = ScenNode
    /\ last.kind = "NotifyHandler" /\ last.hev.type = "AnswerAdvertisedPeer"

\* C2: the answer to a query carries Some(advertised_peers) when the
\* behaviour is providing and None, not an empty list, when it is not.
C2_AnswerNoneWhenNotProviding ==
    Answered =>
        last.hev.payload = IF beh[ScenNode].is_providing
                           THEN SomeList(beh[ScenNode].advertised_peers)
                           ELSE NoList

\* C3: SetProviderState(x) sets is_providing to x and reports x, and a
\* GetProviderState processed later reports the x of the last
\* SetProviderState, whatever was processed in between.
C3_ProviderStateRoundTrip ==
    /\ [](\A n \in Nodes :
             lastSet[n] # "none" => beh[n].is_providing = (lastSet[n] = "true"))
    /\ [][last'.op = "poll" /\ last'.cmd = "SetProviderState" =>
            LET n == last'.node IN
              /\ beh'[n].is_providing = Returning(n).flag
              /\ last'.kind = "GenerateEvent"
              /\ last'.oev = OutEvent("ProviderState", NoPeer, Returning(n).flag,
                                      Returning(n).id, NoList, "-")]_vars
    /\ [][last'.op = "poll" /\ last'.cmd = "GetProviderState"
             /\ lastSet[last'.node] # "none" =>
            LET n == last'.node IN
              /\ last'.kind = "GenerateEvent"
              /\ last'.oev = OutEvent("ProviderState", NoPeer,
                                      lastSet[n] = "true", Returning(n).id,
                                      NoList, "-")]_vars

\* A GetProviderState has just reported false after a SetProviderState(false)
\* that followed an earlier switch-on (advertisements are still held).
C3_Witness ==
    /\ last.op = "poll" /\ last.cmd = "GetProviderState"
    /\ lastSet[last.node] = "false" /\ ~last.oev.flag
    /\ scen.mode = "off"

\* C4: ConnectionClosed(peer) with no connection remaining takes peer out of
\* connected_peers and advertised_peers; with one remaining it changes neither.
C4_ConnectionClosedEvicts ==
    [][last'.op = "ConnectionClosed" =>
        LET n == last'.node
            p == last'.peer
        IN  IF conns'[n][p] = 0
            THEN /\ beh'[n].connected_peers = beh[n].connected_peers \ {p}
                 /\ beh'[n].advertised_peers = beh[n].advertised_peers \ {p}
                 /\ p \notin beh'[n].connected_peers
                 /\ p \notin beh'[n].advertised_peers
            ELSE /\ beh'[n].connected_peers = beh[n].connected_peers
                 /\ beh'[n].advertised_peers = beh[n].advertised_peers]_vars

\* The last connection to an advertised peer has just closed.
C4_Witness ==
    /\ last.op = "ConnectionClosed" /\ ~last.flag /\ last.was
    /\ conns[last.node][last.peer] = 0

\* C5: a peer is in connected_peers, of the advertise and of the hyper
\* behaviour, exactly when a connection to it is established.
C5_ConnectedMirrorsConnections ==
    \A n \in Nodes : \A p \in Peers :
        /\ p \in beh[n].connected_peers <=> conns[n][p] >= 1
        /\ p \in hyper[n] <=> conns[n][p] >= 1

\* One of two connections to a peer has just closed and the peer is still
\* counted as connected.
C5_Witness ==
    /\ last.op = "ConnectionClosed" /\ last.flag
    /\ conns[last.node][last.peer] >= 1
    /\ last.peer \in beh[last.node].connected_peers
    /\ last.peer \in hyper[last.node]

C7_UnsupportedQueryResolves ==
    \A n \in Nodes :
        /\ hq[n].st = "done" /\ hq[n].relay \in Unsupporting
        /\ hq[n].proc = "dispatched"
        /\ hand[n][hq[n].relay].state \in {"Inactive_unreported", "Inactive_reported"}
        => ~hq[n].ok /\ hq[n].err \in {"NotProviding", "Unsupported"}

\* A query handed to the handler of a peer without the protocol never ends
\* in anything but the timeout of the call.
UnsupportedQueryTimesOut ==
    \A n \in Nodes :
        hq[n].st = "done" /\ hq[n].relay \in Unsupporting
        /\ hq[n].proc = "dispatched"
        => ~hq[n].ok /\ hq[n].err = "Timeout"

\* C8 as stated: ScenPeer was advertised when the provider went off, sent no
\* advertisement packet since, and the provider is on again; its query is
\* answered with an empty list.
C8_ToggleAnswersEmpty ==
    Answered /\ last.peer = ScenPeer /\ scen.mode = "on" /\ ~scen.removed =>
        last.hev.payload = SomeList({})

\* C8: ScenPeer was advertised when the provider went off, sent no
\* advertisement packet since and its entry was not removed by a command or
\* by the closing of its last connection; with the provider on again its
\* query is answered with the list advertised_peers, which still holds it.
C8_ToggleKeepsAdvertisement ==
    Answered /\ last.peer = ScenPeer /\ scen.mode = "on" /\ ~scen.removed =>
        /\ last.hev.payload = SomeList(beh[ScenNode].advertised_peers)
        /\ ScenPeer \in last.hev.payload.list

\* The provider went off and on again with ScenPeer advertised and has just
\* answered ScenPeer's query.
C8_Witness ==
    /\ Answered /\ last.peer = ScenPeer
    /\ scen.mode = "on" /\ ~scen.removed
    /\ beh[ScenNode].is_providing

\* C9: an AdvertiseSelf packet that arrives while is_providing is false
\* inserts or removes its sender all the same, and once the provider is on
\* again a query is answered with Some(advertised_peers), which excludes a
\* sender that retracted and includes one that advertised while it was off;
\* it is empty when the retracted sender was the only advertiser.
C9_AdvertiseWhileOff ==
    /\ [](Answered /\ beh[ScenNode].is_providing /\ scen.mode \in {"ins", "rem"} =>
            /\ last.hev.payload = SomeList(beh[ScenNode].advertised_peers)
            /\ scen.mode = "rem" => ScenPeer \notin last.hev.payload.list
            /\ scen.mode = "ins" => ScenPeer \in last.hev.payload.list)
    /\ [][last'.op = "IncomingAdvertiseReq" /\ ~beh[last'.node].is_providing =>
            LET n == last'.node
                p == last'.peer
            IN  beh'[n].advertised_peers =
                    IF last'.flag THEN beh[n].advertised_peers \cup {p}
                    ELSE beh[n].advertised_peers \ {p}]_vars

\* ScenPeer, once advertised, retracted while the provider was off; the
\* provider is on again and has just answered ScenPeer with an empty list.
C9_Witness ==
    /\ Answered /\ last.peer = ScenPeer
    /\ beh[ScenNode].is_providing /\ scen.mode = "rem"
    /\ last.hev.payload = SomeList({})

\* C10: advertised_peers changes only on an AdvertiseSelf packet, on a
\* RemoveAdvertised or ClearAdvertised command, or on the closing of a peer's
\* last connection; every other command or event leaves it unchanged.
C10_AdvertisedFrame ==
    [][\A n \in Nodes :
        beh'[n].advertised_peers # beh[n].advertised_peers =>
          \/ last'.op = "IncomingAdvertiseReq" /\ last'.node = n
          \/ last'.op = "ConnectionClosed" /\ last'.node = n /\ ~last'.flag
          \/ /\ last'.op = "poll" /\ last'.node = n
             /\ \E i \in 1..Len(Consumed(n)) :
                   Consumed(n)[i].type \in {"RemoveAdvertised", "ClearAdvertised"}]_vars

\* A SetProviderState(false) has just been processed while a peer is
\* advertised, and the advertisement is still there.
C10_Witness ==
    /\ last.op = "poll" /\ last.cmd = "SetProviderState" /\ ~last.oev.flag
    /\ beh[last.node].advertised_peers # {}

\* The frames poll_outbound writes for the commands evs, one per command.
Frames(evs) == [i \in 1..Len(evs) |-> as_bytes(packet_of(evs[i]))]

\* The events poll_inbound makes of the frames bs.
Events(bs) == [i \in 1..Len(bs) |-> packet_into(from_slice(bs[i]))]

\* An event a handler made of a packet it read.
IsPacketEvent(ev) ==
    ev.type \in {"IncomingQuery", "IncomingAdvertiseReq", "QueryAnswered"}

ProviderStateAfter(cmds) ==
    LET set == {i \in 1..Len(cmds) : cmds[i].type = "SetProviderState"}
    IN  IF set = {} THEN FALSE
        ELSE cmds[CHOOSE i \in set : \A j \in set : j <= i].flag

\* C13: the commands of the handle pass the channel and in_events in the
\* order submitted: those processed, those in in_events and those in the
\* channel are together the submitted sequence; the provider state is the
\* one the processed commands, taken in that order, leave.
C13_CommandsFifo ==
    /\ ord.processed \o beh[OrderNode].in_events \o chan = ord.submitted
    /\ beh[OrderNode].is_providing = ProviderStateAfter(ord.processed)

\* One command was processed while a second waits in in_events and a third
\* in the channel; the second, which switches the provider off, has not
\* taken effect.
C13_Witness ==
    /\ ord.processed = <<InEvent("SetProviderState", NoPeer, TRUE, 0)>>
    /\ beh[OrderNode].in_events = <<InEvent("SetProviderState", NoPeer, FALSE, 0)>>
    /\ Len(chan) = 1
    /\ beh[OrderNode].is_providing

\* C14: a call that waits for its reply has a timeout that ends the wait.
C14_CallsHaveTimeout ==
    \A c \in 1..MaxCalls : calls[c].st = "waiting" => calls[c].timer

\* C15: a call whose subscription missed events does not panic.
C15_LaggedSubscriberSurvives ==
    \A c \in 1..MaxCalls : calls[c].st # "panicked"

\* C16: the swarm task never panics; when it replies to a call whose future
\* was dropped, the reply is lost, the task is back in its select! and the
\* operation has had its effect on the swarm.
C16_AbandonedReplyDiscarded ==
    /\ [](task.pc # "panicked")
    /\ [][\A c \in 1..MaxCalls :
            (calls[c].st = "dropped" /\ calls'[c].replies = calls[c].replies + 1)
            => /\ calls'[c].st = "dropped"
               /\ calls'[c].result = NoOpResult
               /\ task'.pc = "select"
               /\ calls[c].op = "AddExternalAddress" => TaskAddr \in sw'.external
               /\ calls[c].op = "RemoveExternalAddress"
                     => TaskAddr \notin sw'.external
               /\ (calls[c].op = "Listen" /\ calls'[c].out.ok)
                     => TaskAddr \in sw'.listeners
               /\ (calls[c].op = "Dial" /\ calls'[c].out.ok) => sw'.dialing]_vars

\* Both handles had a reply discarded: an AddExternalAddress whose address
\* is in the swarm, and a callback of the behaviour.
C16_Witness ==
    /\ calls[1].st = "dropped" /\ calls[1].replies = 1
    /\ calls[1].op = "AddExternalAddress" /\ TaskAddr \in sw.external
    /\ calls[MaxCalls].st = "dropped" /\ calls[MaxCalls].replies = 1
    /\ task.pc = "select"

\* C17: a swarm operation that was executed has sent on its callback once,
\* and not before; the caller gets the result of that operation, a failed
\* dial or listen as the Err value, and no other call is touched.
C17_SwarmOpRepliesOnce ==
    /\ [](LET queued == \E i \in 1..Len(swarm_rx) : swarm_rx[i].call = 1
          IN  calls[1].op \in SwarmOps =>
                /\ queued => /\ calls[1].replies = 0
                             /\ calls[1].st \in {"waiting", "dropped"}
                /\ ~queued => /\ calls[1].replies = 1
                              /\ calls[1].out.kind = calls[1].op
                              /\ calls[1].st = "returned"
                                    => calls[1].result = calls[1].out)
    /\ [][(swarm_rx # <<>> /\ swarm_rx' = Tail(swarm_rx)
             /\ calls[1].st = "waiting")
          => /\ calls'[1].st = "returned"
             /\ calls'[1].result.kind = Head(swarm_rx).op
             /\ (Head(swarm_rx).op = "Dial" /\ ~sw.dialing)
                   => (calls'[1].result.ok <=> sw'.dialing)
             /\ (Head(swarm_rx).op = "Listen" /\ TaskAddr \notin sw.listeners)
                   => (calls'[1].result.ok <=> TaskAddr \in sw'.listeners)
             /\ \A c \in 2..MaxCalls : calls'[c] = calls[c]]_vars

\* A dial that failed has returned its error to the caller.
C17_Witness ==
    /\ calls[1].op = "Dial" /\ calls[1].st = "returned"
    /\ ~calls[1].result.ok /\ calls[1].replies = 1
    /\ ~sw.dialing

\* C18: the task takes a swarm event only while fewer than
\* (buffer_size >> 2) << 2 events are queued in the event channel, and it
\* stays in its select!, where commands are received.
C18_BackpressureGate ==
    /\ [](task.pc = "select")
    /\ [][(task.pc = "select"
            /\ (Len(evq') > Len(evq) \/ task'.pc = "sending"))
          => Len(evq) < (buffer_size \div 4) * 4]_vars

\* C19: the send ids handed out on one node start at 0 and grow strictly in
\* the order they are handed out, also with several tasks calling send_file
\* on clones of the handle; no id is handed out twice, and no two live Send
\* records carry the same send_id.
C19_SendIdsIncrease ==
    /\ blob.assigned # <<>> => blob.assigned[1] = 0
    /\ \A i, j \in 1..Len(blob.assigned) :
          i < j => blob.assigned[i] < blob.assigned[j]
    /\ \A i, j \in 1..Len(blob.pending_send) :
          i # j => blob.pending_send[i].send_id # blob.pending_send[j].send_id

\* Two callers took ids at the same time and their commands arrived in the
\* other order.
C19_Witness ==
    /\ Len(blob.pending_send) >= 2
    /\ blob.pending_send[1].send_id > blob.pending_send[2].send_id
    /\ Len(blob.assigned) = MaxSends

\* C20: the receiver gives a fresh recv_id, greater than every one it gave
\* before, to an unknown (from, send_id) and none to a known one; among the
\* live records (from, send_id) and recv_id determine each other, and the
\* recv_id of a cancelled transfer is not given out again.
C20_RecvIdsFresh ==
    /\ \A i, j \in 1..Len(blob.recv_assigned) :
          i < j => blob.recv_assigned[i] < blob.recv_assigned[j]
    /\ \A i, j \in 1..Len(blob.pending_recv) :
          i # j => /\ blob.pending_recv[i].recv_id # blob.pending_recv[j].recv_id
                   /\ <<blob.pending_recv[i].from, blob.pending_recv[i].send_id>>
                        # <<blob.pending_recv[j].from, blob.pending_recv[j].send_id>>
    /\ \A i \in 1..Len(blob.pending_recv) :
          \E j \in 1..Len(blob.recv_assigned) :
              blob.recv_assigned[j] = blob.pending_recv[i].recv_id

\* A transfer was cancelled, a later one got its id after that, and two
\* peers have live transfers with the same send_id.
C20_Witness ==
    /\ \E i, j \in 1..Len(blob.pending_recv) :
          /\ blob.pending_recv[i].from # blob.pending_recv[j].from
          /\ blob.pending_recv[i].send_id = blob.pending_recv[j].send_id
    /\ \E a \in 1..Len(blob.recv_assigned) :
          /\ \A i \in 1..Len(blob.pending_recv) :
                blob.pending_recv[i].recv_id # blob.recv_assigned[a]
          /\ \E i \in 1..Len(blob.pending_recv) :
                blob.pending_recv[i].recv_id > blob.recv_assigned[a]

\* How many of the events in evs carry message m from its sender.
Copies(evs, m) ==
    Cardinality({i \in 1..Len(evs) : evs[i] = [from |-> m.from, msg |-> m]})

InFlight(q, type, id) ==
    Cardinality({i \in 1..Len(q) : q[i].type = type /\ q[i].id = id})

\* C21: cancel_send answers Ok exactly when a Send record with the id
\* existed; an Ok removes the record and pushes one Cancel toward the
\* remote, an error changes nothing; cancel_recv does the same at the
\* receiver; and after an Ok no chunk of the transfer is enqueued and no
\* byte of it is written.
C21_CancelIffExisted ==
    /\ [](~xfer.late)
    /\ [][/\ xfer'.last.op = "cancel_send" =>
                LET id == xfer'.last.id
                IN  /\ xfer'.last.ok <=> HasSend(xfer, id)
                    /\ xfer'.last.ok =>
                          /\ ~HasSend(xfer', id)
                          /\ xfer'.ab = Append(xfer.ab, XfPacket("Cancel", id, 0, 0))
                    /\ ~xfer'.last.ok =>
                          /\ xfer'.sends = xfer.sends
                          /\ xfer'.ab = xfer.ab
          /\ xfer'.last.op = "cancel_recv" =>
                LET id == xfer'.last.id
                IN  /\ xfer'.last.ok <=> HasRecvId(xfer, id)
                    /\ xfer'.last.ok =>
                          /\ ~HasRecvId(xfer', id)
                          /\ xfer'.ba = Append(xfer.ba,
                                XfPacket("Cancel", RecvById(xfer, id).send_id, 0, 0))
                    /\ ~xfer'.last.ok =>
                          /\ xfer'.recvs = xfer.recvs
                          /\ xfer'.ba = xfer.ba]_vars

\* cancel_send answered Ok for a transfer that had a chunk on its way.
C21_Witness ==
    /\ xfer.last.op = "cancel_send"
    /\ xfer.last.ok
    /\ InFlight(xfer.ab, "Chunk", xfer.last.id) = 1
    /\ InFlight(xfer.ab, "Cancel", xfer.last.id) = 1

\* C22: the delivery of a Cancel removes, on the side that gets it, the
\* record of that transfer and no other; the records of the other
\* transfers stay on both sides as they were, ids included.
C22_CancelSelective ==
    [][xfer'.last.op = "Cancel" /\ xfer'.last # xfer.last =>
          /\ xfer'.sends = SelectSeq(xfer.sends, LAMBDA r : r.send_id # xfer'.last.id)
          /\ xfer'.recvs = SelectSeq(xfer.recvs, LAMBDA r : r.send_id # xfer'.last.id)
          /\ Len(xfer.sends) + Len(xfer.recvs)
               = Len(xfer'.sends) + Len(xfer'.recvs) + 1]_vars

\* All sends were issued, one was cancelled and its Cancel delivered, and
\* the others are listed on both sides.
C22_Witness ==
    /\ xfer.last.op = "Cancel"
    /\ xfer.next_send = MaxXfers
    /\ Cardinality(xfer.cancelled) = 1
    /\ xfer.finished = <<>>
    /\ Len(xfer.sends) = MaxXfers - 1
    /\ Len(xfer.recvs) = MaxXfers - 1
    /\ \A i \in 1..Len(xfer.sends) : HasRecv(xfer, xfer.sends[i].send_id)

\* C23: a chunk is enqueued only for a transfer whose Accept arrived and
\* whose earlier chunks are all acknowledged, so a transfer has at most one
\* chunk that is not acknowledged.
C23_ChunkGating ==
    /\ [](\A id \in 0..(MaxXfers - 1) :
            /\ InFlight(xfer.ab, "Chunk", id) + InFlight(xfer.ba, "Ack", id) <= 1
            /\ HasSend(xfer, id) =>
                  /\ SendOf(xfer, id).sent - SendOf(xfer, id).acked \in {0, 1}
                  /\ SendOf(xfer, id).sent > 0 => SendOf(xfer, id).started)
    /\ [][xfer'.last.op = "chunk" /\ xfer'.ab # xfer.ab =>
             /\ HasSend(xfer, xfer'.last.id)
             /\ SendOf(xfer, xfer'.last.id).started
             /\ SendOf(xfer, xfer'.last.id).sent = SendOf(xfer, xfer'.last.id).acked]_vars

\* Chunks of two transfers are on the way at the same time.
C23_Witness ==
    \E i, j \in 1..Len(xfer.ab) :
        /\ xfer.ab[i].type = "Chunk"
        /\ xfer.ab[j].type = "Chunk"
        /\ xfer.ab[i].id # xfer.ab[j].id

C25_CancelRacesBenign ==
    /\ [](xfer.ab = <<>> /\ xfer.ba = <<>> =>
            \A id \in xfer.cancelled : ~HasSend(xfer, id) /\ ~HasRecv(xfer, id))
    /\ [][xfer'.last.op = "discard" =>
             /\ xfer'.sends = xfer.sends
             /\ xfer'.recvs = xfer.recvs
             /\ xfer'.files = xfer.files
             /\ xfer'.finished = xfer.finished]_vars

\* A Cancel crossed a packet of the cancelled transfer, which was
\* discarded, while the other transfer is still listed on both sides.
C25_Witness ==
    /\ xfer.last.op = "discard"
    /\ xfer.last.id \in xfer.cancelled
    /\ xfer.ab = <<>> /\ xfer.ba = <<>>
    /\ xfer.sends # <<>> /\ xfer.recvs # <<>>

\* C29: after a DialUpgradeError with NegotiationFailed the next poll of the
\* handler delivers one Unsupported event to its behaviour and asks for no
\* new outbound substream, and every poll after that returns Pending.
C29_UnsupportedOnceThenSilent ==
    /\ [](\A n \in Nodes : \A p \in NetPeers(n) :
            hand[n][p].state = "Inactive_reported" =>
                /\ Handler_poll(hand[n][p], <<>>).kind = "Pending"
                /\ Handler_poll(hand[n][p], <<>>).h = hand[n][p])
    /\ [][\A n \in Nodes : \A p \in NetPeers(n) :
             (hand[n][p].state = "Inactive_unreported"
                /\ hand'[n][p].state = "Inactive_reported") =>
                  /\ last'.hev.type = "Unsupported"
                  /\ hand'[n][p].outbound = hand[n][p].outbound]_vars

\* C30: connection_keep_alive reports true while the handler is Active and
\* false while it is Inactive.
C30_KeepAliveFollowsState ==
    \A n \in Nodes : \A p \in NetPeers(n) :
        hand[n][p].state # "Dropped" =>
            (connection_keep_alive(hand[n][p]) <=> hand[n][p].state = "Active")

\* C26: accepting into a path that names an existing file fails with
\* FsError(AlreadyExists): the file keeps its bytes, no AcceptFile command
\* is sent and the record stays pending.
C26_ExistingFileRefused ==
    [][(/\ fs'.last # fs.last
        /\ fs'.last.op = "recv_file"
        /\ fs.files[fs'.last.path].kind = "file") =>
            /\ fs'.last.result = "AlreadyExists"
            /\ fs'.files = fs.files
            /\ fs'.chan = fs.chan
            /\ fs'.recvs = fs.recvs]_vars

\* C27: accepting into a path that names an existing directory succeeds
\* with a new file named with the sender's file_name inside it, and fails
\* only if that file already exists.
C27_DirectoryTakesFileName ==
    [][(/\ fs'.last # fs.last
        /\ fs'.last.op \in {"recv_file", "accept"}
        /\ fs'.last.result # "Sent"
        /\ fs.files[fs'.last.path].kind = "dir"
        /\ ~fs.recvs[fs'.last.recv_id].accepted) =>
            LET inner == join(fs'.last.path, FsFileName)
            IN  IF fs.files[inner].kind = "absent"
                THEN /\ fs'.last.result = "Ok"
                     /\ fs'.files[inner].kind = "file"
                     /\ fs'.recvs[fs'.last.recv_id].dest = inner
                ELSE /\ fs'.last.result = "AlreadyExists"
                     /\ fs'.files = fs.files]_vars

\* C28: send_message calls in flight together on one handle have distinct
\* operation ids, and a call that returns a result returns the one of the
\* event made for its own id, never one made for another call, in whatever
\* order the events are broadcast.
C28_ResolvedByOwnId ==
    /\ \A k1, k2 \in 1..MaxCalls :
          (k1 # k2 /\ corr.callers[k1].pc = "waiting"
                   /\ corr.callers[k2].pc = "waiting") =>
              corr.callers[k1].id # corr.callers[k2].id
    /\ \A k \in 1..MaxCalls :
          (corr.callers[k].pc = "idle" /\ corr.callers[k].result # "none") =>
              corr.callers[k].by = corr.callers[k].id

\* C36: in every reachable state of the advertise behaviour the advertised
\* peers are among the connected peers.
C36_AdvertisedAreConnected ==
    \A n \in Nodes : beh[n].advertised_peers \subseteq beh[n].connected_peers

\* The last connection to an advertised peer has just closed while another
\* peer stays advertised.
C36_Witness ==
    /\ last.op = "ConnectionClosed" /\ ~last.flag /\ last.was
    /\ beh[last.node].advertised_peers # {}
    /\ last.peer \notin beh[last.node].advertised_peers

\* C37: whenever the poll of the advertise behaviour returns Pending, its
\* pending_query_answer, pending_out_events and in_events are all empty.
C37_PendingLeavesNothing ==
    (last.op = "poll" /\ last.kind = "Pending") =>
        /\ beh[last.node].pending_query_answer = <<>>
        /\ beh[last.node].pending_out_events = <<>>
        /\ beh[last.node].in_events = <<>>

\* C38: each IncomingQuery is answered once and in arrival order, the answer
\* goes to a peer that is in connected_peers when the answering poll runs,
\* and pending_query_answer never holds a peer that is not connected.
C38_AnswersOnlyToConnected ==
    /\ [](\A n \in Nodes : \A i \in 1..Len(beh[n].pending_query_answer) :
             beh[n].pending_query_answer[i] \in beh[n].connected_peers)
    /\ [][(last'.op = "poll" /\ last'.hev.type = "AnswerAdvertisedPeer") =>
             LET n == last'.node
             IN  /\ beh[n].pending_query_answer # <<>>
                 /\ last'.peer = Head(beh[n].pending_query_answer)
                 /\ beh'[n].pending_query_answer = Tail(beh[n].pending_query_answer)
                 /\ last'.peer \in beh[n].connected_peers]_vars

\* C39: query_advertised_peer, remove_advertised and send_message subscribe
\* before they send their command, so the event made for the command of a
\* call is never broadcast while the call has no subscription: it reaches
\* the subscription in every interleaving of the caller and the swarm task.
C39_SubscribedBeforeSent ==
    \A k \in 1..MaxCalls :
        /\ subs.callers[k].sent => subs.callers[k].subscribed
        /\ ~subs.callers[k].missed

\* A call has heard the event of its own command although the swarm task
\* took the command as soon as it was sent, and an event of another call
\* was broadcast while it was subscribed.
C39_Witness ==
    \E k \in 1..MaxCalls :
        /\ subs.callers[k].heard
        /\ subs.callers[k].st = "returned"
        /\ subs.callers[k].by = subs.callers[k].id
        /\ subs.callers[k].method = "send_message"
        /\ subs.callers[k].id > 0

\* C40: a query_advertised_peer(relay) call returns only the answer made
\* for its own query: with two calls for one relay in flight, or a change
\* of the provider state between them, neither is resolved by the event
\* the other caused.
C40_QueryResolvedByOwnAnswer ==
    \A k \in 1..MaxCalls :
        (subs.callers[k].st = "returned"
           /\ subs.callers[k].method = "query_advertised_peer") =>
              subs.callers[k].by = subs.callers[k].id

\* C34: a completed recv, whether its frame parses or not, leaves a recv
\* armed on the inbound stream and the handler in its state; the inbound
\* stream is given up only by a poll whose recv failed.
C34_InboundRearmed ==
    [][/\ (hd'.last.op = "poll" /\ hd'.last.recv = "Ok")
            => /\ hd'.h.inbound = "Recv"
               /\ hd.h.state = "Active" => hd'.h.state = "Active"
       /\ (hd.h.inbound = "Recv" /\ hd'.h.inbound = "None")
            => hd'.last.op = "poll" /\ hd'.last.recv = "Err"]_vars

C34_Witness ==
    /\ hd.version = "advertise"
    /\ hd.last.op = "poll" /\ hd.last.recv = "Ok"
    /\ Len(hd.frames) >= 2
    /\ hd.frames[Len(hd.frames)] = Garbled
    /\ hd.frames[Len(hd.frames) - 1] = Garbled
    /\ hd.h.inbound = "Recv"
    /\ hd.h.state = "Active"

\* C33: in the handler of owlnest-advertise a poll whose recv failed gives
\* the inbound stream up and leaves the outbound state, the packet in
\* flight and the queued commands as the same poll leaves them without the
\* failure; a poll whose send failed gives the outbound stream up, writes
\* nothing and leaves the inbound as the same poll leaves it without the
\* failure; each failure pushes exactly one Error(IO); an Active handler
\* stays Active.
C33_IoErrorsIsolated ==
    [][hd.version = "advertise" /\ hd'.last.op = "poll" =>
         LET l == hd'.last
             calm_in == version_poll(hd.version, hd.h, hd.rx, "Pending",
                                     l.send, l.timer).h
             calm_out == version_poll(hd.version, hd.h, hd.rx, l.recv,
                                      "Pending", FALSE).h
         IN  /\ errors("IO", hd'.h.pending_out_events, l.kind, l.ev)
                  = errors("IO", hd.h.pending_out_events, "-", l.ev)
                      + (IF l.recv = "Err" THEN 1 ELSE 0)
                      + (IF l.send = "Err" THEN 1 ELSE 0)
             /\ l.recv = "Err" =>
                  /\ hd'.h.inbound = "None"
                  /\ hd'.h.outbound = calm_in.outbound
                  /\ hd'.h.sending = calm_in.sending
                  /\ hd'.h.pending_in_events = calm_in.pending_in_events
             /\ l.send = "Err" =>
                  /\ hd'.h.outbound \in {"None", "OpenStream"}
                  /\ hd'.written = hd.written
                  /\ hd'.h.inbound = calm_out.inbound
             /\ (l.recv = "Err" \/ l.send = "Err")
                  => (hd.h.state = "Active" => hd'.h.state = "Active")]_vars

C33_Witness ==
    /\ hd.version = "advertise"
    /\ hd.last.op = "poll" /\ hd.last.recv = "Err" /\ hd.last.send = "Err"
    /\ hd.h.inbound = "None"
    /\ hd.h.outbound = "OpenStream"
    /\ hd.h.state = "Active"
    /\ hd.h.pending_in_events # <<>>
    /\ errors("IO", hd.h.pending_out_events, hd.last.kind, hd.last.ev) >= 2

\* C32: a poll that finds the send in flight pending and its timer ready
\* pushes exactly one Error(Timeout), ends not Busy, writes nothing and
\* leaves the queued commands as they were, the command of that send not
\* among them again; the commands are taken from the queue in the order
\* they came, and what is written is the packets of those whose send
\* completed, in that order.
C32_TimeoutNotRetried ==
    /\ [](/\ Len(hd.fate) + Len(hd.h.pending_in_events) = Len(hd.submitted)
          /\ hd.h.pending_in_events
               = SubSeq(hd.submitted, Len(hd.fate) + 1, Len(hd.submitted))
          /\ hd.written = sent_of(hd.submitted, hd.fate))
    /\ [][(hd'.last.op = "poll" /\ hd'.last.timer) =>
            /\ errors("Timeout", hd'.h.pending_out_events, hd'.last.kind,
                      hd'.last.ev)
                 = errors("Timeout", hd.h.pending_out_events, "-", hd'.last.ev) + 1
            /\ hd'.h.outbound # "Busy"
            /\ hd'.h.sending = NoPacket
            /\ hd'.written = hd.written
            /\ hd'.h.pending_in_events = hd.h.pending_in_events
            /\ hd'.fate = [hd.fate EXCEPT ![Len(hd.fate)] = "lost"]]_vars

C32_Witness ==
    /\ hd.version = "advertise"
    /\ hd.fate = <<"lost", "sent">>
    /\ hd.written = <<packet_of(hd.submitted[2])>>
    /\ hd.submitted[1] # hd.submitted[2]
    /\ hd.h.outbound = "Idle"

\* C31: the outbound of a handler moves only from None to OpenStream with
\* one substream request, from OpenStream to Idle on FullyNegotiatedOutbound
\* with OutboundNegotiated queued, from Idle to Busy by taking one command,
\* and from Busy to Idle when the send completed, apart from the exits of a
\* failed send, a timer that fired and a failed upgrade; a command taken
\* from the queue leads to Busy with its packet; a packet is written only
\* by the send in flight; there is at most one request outstanding.
C31_OutboundMoves ==
    /\ [](/\ hd.requests <= 1
          /\ hd.requests = 1 => hd.h.outbound = "OpenStream"
          /\ hd.h.outbound = "Busy" <=> hd.h.sending # NoPacket)
    /\ [][LET o == hd.h.outbound
              n == hd'.h.outbound
              l == hd'.last
              took == Len(hd'.h.pending_in_events) < Len(hd.h.pending_in_events)
              completed == /\ l.op = "poll" /\ l.send = "Ok" /\ o = "Busy"
                           /\ hd'.written = Append(hd.written, hd.h.sending)
              failed == /\ l.op = "poll" /\ (l.send = "Err" \/ l.timer)
                        /\ o = "Busy" /\ n \in {"None", "OpenStream"}
          IN  /\ took =>
                   /\ l.op = "poll"
                   /\ o = "Idle" \/ completed
                   /\ n = "Busy"
                   /\ hd'.h.pending_in_events = Tail(hd.h.pending_in_events)
                   /\ hd'.h.sending = packet_of(Head(hd.h.pending_in_events))
              /\ hd'.written # hd.written => completed
              /\ hd'.requests > hd.requests =>
                   /\ l.kind = "OutboundSubstreamRequest"
                   /\ hd'.requests = hd.requests + 1
                   /\ n = "OpenStream"
              /\ \/ n = o /\ (took \/ hd'.h.sending = hd.h.sending)
                 \/ /\ o = "None" /\ n = "OpenStream"
                    /\ l.op = "poll" /\ l.kind = "OutboundSubstreamRequest"
                 \/ /\ o = "OpenStream" /\ n = "Idle" /\ l.op = "outbound"
                    /\ hd'.h.pending_out_events
                         = Append(hd.h.pending_out_events,
                                  ToBehaviour("OutboundNegotiated", FALSE, NoList, "-"))
                 \/ o = "Idle" /\ n = "Busy" /\ took
                 \/ o = "Busy" /\ n = "Idle" /\ completed
                 \/ failed
                 \/ o = "OpenStream" /\ n = "None" /\ l.op = "dial_error"]_vars

\* C35: the events of frames given to the behaviour, followed by those
\* still queued in the handler, are the events of the frames read, one for
\* each frame and in the order of the frames.
C35_OneEventPerFrame ==
    LET is_of_frame(ev) == of_frame(ev)
    IN  hd.delivered \o SelectSeq(hd.h.pending_out_events, is_of_frame)
          = [i \in 1..Len(hd.frames) |-> frame_event(hd.frames[i])]

====
